---- MODULE Spec2Model ----
(***************************************************************************)
(* Humsana MCP server (src/src/index.ts, the "Day 3.5" server that starts  *)
(* at line 374): the cognitive interlock around command execution and      *)
(* file writes.                                                            *)
(*                                                                         *)
(* Representation.  A string is a sequence of characters.  Characters of   *)
(* commands, patterns and configuration values are one-character TLA+      *)
(* strings; characters of file contents are integers (a letter is a number *)
(* in 1..MaxLetter, NL is the newline and SP the space).  Times are in     *)
(* minutes; a stress level is in hundredths.                               *)
(***************************************************************************)
EXTENDS Integers, Sequences, FiniteSets, TLC

\* ------------------------------------------------------------------------
\* Bounds of the model
\* ------------------------------------------------------------------------
MaxCalls == 2
MaxTicks == 1

\* ------------------------------------------------------------------------
\* Characters of file contents
\* ------------------------------------------------------------------------
NL == 100
SP == 101

\* A file of the home directory as the code sees it: missing (existsSync is
\* false), unreadable (the read or the parse throws) or readable with data
Absent == [kind |-> "absent"]
Unreadable == [kind |-> "unreadable"]
Readable(d) == [kind |-> "ok", data |-> d]

Max(a, b) == IF a > b THEN a ELSE b
Min(a, b) == IF a < b THEN a ELSE b

\* String.prototype.split("\n"): the pieces between newlines; "" gives [""].
\* Computed by halving: the last piece of the left half continues in the
\* first piece of the right half.
RECURSIVE SplitRange(_, _, _)
SplitRange(s, lo, hi) ==
    IF lo > hi THEN << <<>> >>
    ELSE IF lo = hi THEN (IF s[lo] = NL THEN << <<>>, <<>> >> ELSE << <<s[lo]>> >>)
    ELSE LET mid == (lo + hi) \div 2
             l == SplitRange(s, lo, mid)
             r == SplitRange(s, mid + 1, hi)
         IN  SubSeq(l, 1, Len(l) - 1) \o << l[Len(l)] \o r[1] >> \o Tail(r)

split(s) == SplitRange(s, 1, Len(s))

IsSpace(c) == c = SP \/ c = NL

RECURSIVE TrimStart(_)
TrimStart(l) ==
    IF l = <<>> THEN <<>>
    ELSE IF IsSpace(Head(l)) THEN TrimStart(Tail(l))
    ELSE l

RECURSIVE TrimEnd(_)
TrimEnd(l) ==
    IF l = <<>> THEN <<>>
    ELSE IF IsSpace(l[Len(l)]) THEN TrimEnd(SubSeq(l, 1, Len(l) - 1))
    ELSE l

\* String.prototype.trim()
trim(l) == TrimEnd(TrimStart(l))

\* new Set(lines.filter(l => l.length > 0)): line 905 without the trim
LineSet_Untrimmed(lines) ==
    {lines[i] : i \in {j \in 1..Len(lines) : Len(lines[j]) > 0}}

\* new Set(lines.map(l => l.trim()).filter(l => l.length > 0))
LineSet(lines) ==
    {trim(lines[i]) : i \in {j \in 1..Len(lines) : Len(trim(lines[j])) > 0}}

\* Math.round(num / den * 100) for num >= 0, den > 0 (round half up)
RoundPercent(num, den) == (200 * num + den) \div (2 * den)

\* lines 901-921 as a positional diff: a line is removed when the line at
\* its position in the new content differs, and added likewise
calculateDestructiveImpact_Positional(oldContent, newContent) ==
    LET oldLines == split(oldContent)
        newLines == split(newContent)
        At(lines, i) == IF i <= Len(lines) THEN trim(lines[i]) ELSE <<>>
        linesRemoved == Cardinality({i \in 1..Len(oldLines) :
                            /\ Len(At(oldLines, i)) > 0
                            /\ At(oldLines, i) # At(newLines, i)})
        linesAdded == Cardinality({i \in 1..Len(newLines) :
                            /\ Len(At(newLines, i)) > 0
                            /\ At(newLines, i) # At(oldLines, i)})
    IN  [linesRemoved |-> linesRemoved,
         linesAdded |-> linesAdded,
         totalOldLines |-> Len(oldLines),
         totalNewLines |-> Len(newLines),
         percentageRemoved |->
             IF Len(oldLines) > 0 THEN RoundPercent(linesRemoved, Len(oldLines))
             ELSE 0]

calculateDestructiveImpact(oldContent, newContent) ==
    LET oldLines == split(oldContent)
        newLines == split(newContent)
        oldSet == LineSet(oldLines)
        newSet == LineSet(newLines)
        linesRemoved == Cardinality(oldSet \ newSet)
        linesAdded == Cardinality(newSet \ oldSet)
    IN  [linesRemoved |-> linesRemoved,
         linesAdded |-> linesAdded,
         totalOldLines |-> Len(oldLines),
         totalNewLines |-> Len(newLines),
         percentageRemoved |->
             IF Len(oldLines) > 0 THEN RoundPercent(linesRemoved, Len(oldLines))
             ELSE 0]

\* ------------------------------------------------------------------------
\* Configuration (loadConfig, lines 459-497)
\* ------------------------------------------------------------------------
DEFAULT_DANGEROUS_PATTERNS ==
    << <<"r", "m", " ", "-", "r", "f">>,
       <<"d", "r", "o", "p", " ", "d", "a", "t", "a", "b", "a", "s", "e">>,
       <<"d", "r", "o", "p", " ", "t", "a", "b", "l", "e">>,
       <<"d", "e", "l", "e", "t", "e", " ", "f", "r", "o", "m">>,
       <<"g", "i", "t", " ", "p", "u", "s", "h", " ", "-", "-", "f", "o", "r", "c", "e">>,
       <<"g", "i", "t", " ", "p", "u", "s", "h", " ", "-", "f">>,
       <<"k", "u", "b", "e", "c", "t", "l", " ", "d", "e", "l", "e", "t", "e">>,
       <<"t", "e", "r", "r", "a", "f", "o", "r", "m", " ", "d", "e", "s", "t", "r", "o", "y">>,
       <<"d", "o", "c", "k", "e", "r", " ", "s", "y", "s", "t", "e", "m", " ", "p", "r", "u", "n", "e">>,
       <<"s", "u", "d", "o", " ", "r", "m">>,
       <<"d", "d", " ", "i", "f", "=">>,
       <<"m", "k", "f", "s">> >>

NaN == [nan |-> TRUE]
Num(n) == [nan |-> FALSE, val |-> n]

Digits == {"0", "1", "2", "3", "4", "5", "6", "7", "8", "9"}

DigitVal(c) ==
    CASE c = "0" -> 0 [] c = "1" -> 1 [] c = "2" -> 2 [] c = "3" -> 3
      [] c = "4" -> 4 [] c = "5" -> 5 [] c = "6" -> 6 [] c = "7" -> 7
      [] c = "8" -> 8 [] c = "9" -> 9

RECURSIVE ParseDigits(_, _, _)
ParseDigits(s, i, acc) ==
    IF i > Len(s) \/ s[i] \notin Digits THEN acc
    ELSE ParseDigits(s, i + 1, 10 * acc + DigitVal(s[i]))

\* parseInt(value) on a trimmed string: optional sign, then the leading
\* digits; NaN when there is no digit
parseInt(s) ==
    LET signed == Len(s) > 0 /\ s[1] \in {"-", "+"}
        first == IF signed THEN 2 ELSE 1
    IN  IF first > Len(s) \/ s[first] \notin Digits THEN NaN
        ELSE IF signed /\ s[1] = "-" THEN Num(0 - ParseDigits(s, first, 0))
        ELSE Num(ParseDigits(s, first, 0))

\* parseInt(value) || dflt : NaN and 0 are falsy
ParseIntOr(s, dflt) ==
    LET n == parseInt(s) IN IF n.nan THEN dflt ELSE IF n.val = 0 THEN dflt ELSE n.val

\* the defaults of lines 460-468 with live as the default mode
ConfigDefaults_Live ==
    [execution_mode |-> "live",
     fatigue_threshold |-> 70,
     dangerous_commands |-> DEFAULT_DANGEROUS_PATTERNS,
     deny_patterns |-> <<>>,
     allow_patterns |-> <<>>,
     write_warn_threshold |-> 30,
     write_block_threshold |-> 50]

\* lines 460-468
ConfigDefaults ==
    [execution_mode |-> "dry_run",
     fatigue_threshold |-> 70,
     dangerous_commands |-> DEFAULT_DANGEROUS_PATTERNS,
     deny_patterns |-> <<>>,
     allow_patterns |-> <<>>,
     write_warn_threshold |-> 30,
     write_block_threshold |-> 50]

\* file is Absent, Unreadable or Readable(d), d the key: value lines of
\* config.yaml as a function from the keys present to their trimmed values
loadConfig(file) ==
    IF file.kind = "absent" THEN ConfigDefaults
    ELSE IF file.kind = "unreadable" THEN ConfigDefaults
    ELSE LET d == file.data
             has(key) == key \in DOMAIN d
         IN  [ConfigDefaults EXCEPT
                !.execution_mode =
                    IF has("execution_mode") THEN d["execution_mode"] ELSE @,
                !.fatigue_threshold =
                    IF has("fatigue_threshold")
                    THEN ParseIntOr(d["fatigue_threshold"], 70) ELSE @,
                !.write_warn_threshold =
                    IF has("write_warn_threshold")
                    THEN ParseIntOr(d["write_warn_threshold"], 30) ELSE @,
                !.write_block_threshold =
                    IF has("write_block_threshold")
                    THEN ParseIntOr(d["write_block_threshold"], 50) ELSE @]

\* ------------------------------------------------------------------------
\* Fatigue estimator (lines 499-552)
\* ------------------------------------------------------------------------
BREAK_THRESHOLD_MS == 60

\* the loop of lines 518-527 with gap > BREAK_THRESHOLD_MS at line 523
RECURSIVE LastBreakIndex_Strict(_, _)
LastBreakIndex_Strict(heartbeats, i) ==
    IF i <= 1 THEN 0
    ELSE IF heartbeats[i] - heartbeats[i - 1] > BREAK_THRESHOLD_MS THEN i
    ELSE LastBreakIndex_Strict(heartbeats, i - 1)

\* the loop of lines 518-527: index of the newest heartbeat that follows a
\* gap of at least the break threshold, 0 when there is none
RECURSIVE LastBreakIndex(_, _)
LastBreakIndex(heartbeats, i) ==
    IF i <= 1 THEN 0
    ELSE IF heartbeats[i] - heartbeats[i - 1] >= BREAK_THRESHOLD_MS THEN i
    ELSE LastBreakIndex(heartbeats, i - 1)

\* lines 535-539 with <= for <
UptimeCategory_Inclusive(uptimeMinutes) ==
    IF uptimeMinutes <= 4 * 60 THEN "low"
    ELSE IF uptimeMinutes <= 8 * 60 THEN "moderate"
    ELSE IF uptimeMinutes <= 12 * 60 THEN "high"
    ELSE "critical"

UptimeCategory(uptimeMinutes) ==
    IF uptimeMinutes < 4 * 60 THEN "low"
    ELSE IF uptimeMinutes < 8 * 60 THEN "moderate"
    ELSE IF uptimeMinutes < 12 * 60 THEN "high"
    ELSE "critical"

\* activity is Absent, Unreadable or Readable(heartbeat timestamps); hours
\* is returned in minutes
getCognitiveUptime(activity, t) ==
    IF activity.kind = "absent" THEN [hours |-> 0, category |-> "low"]
    ELSE IF activity.kind = "unreadable" THEN [hours |-> 0, category |-> "low"]
    ELSE IF Len(activity.data) = 0 THEN [hours |-> 0, category |-> "low"]
    ELSE LET heartbeats == activity.data
             b == LastBreakIndex(heartbeats, Len(heartbeats))
             lastBreakTime == IF b = 0 THEN heartbeats[1] ELSE heartbeats[b]
             uptime == t - lastBreakTime
         IN  [hours |-> Max(0, uptime), category |-> UptimeCategory(uptime)]

\* lines 548-552 with Math.floor for Math.round
calculateFatigue_Floor(stressLevel, uptimeMinutes) ==
    LET base60 == Min(60 * 60, 5 * uptimeMinutes)
        stress60 == 24 * stressLevel
    IN  Min(100, Max(0, (base60 + stress60) \div 60))

\* lines 548-552 without the cap of 60 on the uptime share (line 549)
calculateFatigue_UncappedUptime(stressLevel, uptimeMinutes) ==
    LET base60 == 5 * uptimeMinutes
        stress60 == 24 * stressLevel
    IN  Min(100, Max(0, (base60 + stress60 + 30) \div 60))

\* lines 548-552 without the clamp of line 551
calculateFatigue_Unclamped(stressLevel, uptimeMinutes) ==
    LET base60 == Min(60 * 60, 5 * uptimeMinutes)
        stress60 == 24 * stressLevel
    IN  (base60 + stress60 + 30) \div 60

\* stress in hundredths, uptime in minutes:
\* round(min(60, uptime/12h*60) + stress*40), then clamped to 0..100
calculateFatigue(stressLevel, uptimeMinutes) ==
    LET base60 == Min(60 * 60, 5 * uptimeMinutes)
        stress60 == 24 * stressLevel
    IN  Min(100, Max(0, (base60 + stress60 + 30) \div 60))

\* Math.round(hours * 10) / 10, in minutes
RoundTenthHours(minutes) == 6 * ((minutes + 3) \div 6)

HelpfulRecommendations ==
    [style |-> "helpful", length |-> "moderate",
     ask_clarifying_questions |-> TRUE, tone |-> "friendly"]

\* lines 558-583 and 678-703 with a stress of 0.5 standing in for the missing
\* metrics
DegradedState_HalfStress(stateName, uptime) ==
    LET fatigue == calculateFatigue(50, uptime.hours)
    IN  [state |-> stateName,
         metrics |-> [stress_level |-> 50, focus_level |-> 0,
                      cognitive_load |-> 0, typing_wpm |-> 0,
                      fatigue_level |-> fatigue, uptime_hours |-> uptime.hours],
         fatigue |-> [level |-> fatigue, category |-> uptime.category,
                      uptime_hours |-> uptime.hours],
         recommendations |-> HelpfulRecommendations]

\* the two degraded results of lines 558-583 and 678-703
DegradedState(stateName, uptime) ==
    LET fatigue == calculateFatigue(0, uptime.hours)
    IN  [state |-> stateName,
         metrics |-> [stress_level |-> 0, focus_level |-> 0,
                      cognitive_load |-> 0, typing_wpm |-> 0,
                      fatigue_level |-> fatigue, uptime_hours |-> uptime.hours],
         fatigue |-> [level |-> fatigue, category |-> uptime.category,
                      uptime_hours |-> uptime.hours],
         recommendations |-> HelpfulRecommendations]

\* database is Absent, Unreadable or Readable(the averaged row)
getCurrentState(database, activity, t) ==
    LET uptime == getCognitiveUptime(activity, t)
    IN  IF database.kind = "absent" THEN DegradedState("unknown", uptime)
        ELSE IF database.kind = "unreadable" THEN DegradedState("error", uptime)
        ELSE LET row == database.data
                 fatigue == calculateFatigue(row.stress, uptime.hours)
                 st == IF fatigue > 85 THEN "critical_fatigue"
                       ELSE IF row.stress > 70 THEN "stressed"
                       ELSE IF row.focus > 70 THEN "focused"
                       ELSE IF row.load > 70 THEN "debugging"
                       ELSE "relaxed"
                 rec == CASE st = "critical_fatigue" ->
                               [style |-> "minimal", length |-> "very_short",
                                ask_clarifying_questions |-> FALSE,
                                tone |-> "suggest taking a break"]
                          [] st = "stressed" ->
                               [style |-> "direct", length |-> "brief",
                                ask_clarifying_questions |-> FALSE,
                                tone |-> "calm, supportive"]
                          [] st = "focused" ->
                               [style |-> "direct", length |-> "concise",
                                ask_clarifying_questions |-> FALSE,
                                tone |-> "efficient, don't interrupt flow"]
                          [] st = "debugging" ->
                               [style |-> "code_first", length |-> "minimal",
                                ask_clarifying_questions |-> FALSE,
                                tone |-> "just give the fix"]
                          [] OTHER ->
                               [style |-> "conversational", length |-> "flexible",
                                ask_clarifying_questions |-> TRUE,
                                tone |-> "friendly, engaging"]
             IN  [state |-> st,
                  metrics |-> [stress_level |-> row.stress,
                               focus_level |-> row.focus,
                               cognitive_load |-> row.load,
                               typing_wpm |-> row.wpm,
                               fatigue_level |-> fatigue,
                               uptime_hours |-> RoundTenthHours(uptime.hours)],
                  fatigue |-> [level |-> fatigue, category |-> uptime.category,
                               uptime_hours |-> RoundTenthHours(uptime.hours)],
                  recommendations |-> rec]

\* ------------------------------------------------------------------------
\* Risk classifier (lines 706-717)
\* ------------------------------------------------------------------------
UpperCase == {"A", "B", "C", "D", "E", "F", "G", "H", "I", "J", "K", "L", "M", "N", "O", "P", "Q", "R", "S", "T", "U", "V", "W", "X", "Y", "Z"}

LowerOf ==
    "A" :> "a" @@ "B" :> "b" @@ "C" :> "c" @@ "D" :> "d" @@ "E" :> "e" @@ "F" :> "f"
    @@ "G" :> "g" @@ "H" :> "h" @@ "I" :> "i" @@ "J" :> "j" @@ "K" :> "k" @@ "L" :> "l"
    @@ "M" :> "m" @@ "N" :> "n" @@ "O" :> "o" @@ "P" :> "p" @@ "Q" :> "q" @@ "R" :> "r"
    @@ "S" :> "s" @@ "T" :> "t" @@ "U" :> "u" @@ "V" :> "v" @@ "W" :> "w" @@ "X" :> "x"
    @@ "Y" :> "y" @@ "Z" :> "z"

\* String.prototype.toLowerCase()
toLowerCase(s) == [i \in 1..Len(s) |-> IF s[i] \in UpperCase THEN LowerOf[s[i]] ELSE s[i]]

\* String.prototype.includes(p)
includes(s, p) ==
    \E i \in 0..(Len(s) - Len(p)) : SubSeq(s, i + 1, i + Len(p)) = p

\* lines 707-717 without the toLowerCase() of line 708
isDangerousCommand_CaseSensitive(command, config) ==
    LET patterns == config.dangerous_commands \o config.deny_patterns
    IN  \E k \in 1..Len(patterns) : includes(command, toLowerCase(patterns[k]))

isDangerousCommand(command, config) ==
    LET lower == toLowerCase(command)
        patterns == config.dangerous_commands \o config.deny_patterns
    IN  \E k \in 1..Len(patterns) : includes(lower, toLowerCase(patterns[k]))

\* ------------------------------------------------------------------------
\* Tool arguments and primitives
\* ------------------------------------------------------------------------
\* an optional string argument: undefined, or a string
Undefined == [defined |-> FALSE]
Str(v) == [defined |-> TRUE, value |-> v]
\* an optional field of an outcome that is present
Some(v) == [defined |-> TRUE, value |-> v]

\* the test overrideReason !== undefined in place of truthiness
Truthy_Defined(x) == x.defined

\* JavaScript truthiness of an optional string: undefined and "" are falsy
Truthy(x) == x.defined /\ Len(x.value) > 0

\* x || ""
OrEmpty(x) == IF Truthy(x) THEN x.value ELSE <<>>

\* the instruction of lines 741, 836, 1052 and 1079
OVERRIDE_PHRASE == "OVERRIDE SAFETY PROTOCOL: [reason]"

\* execSync(command, {timeout: 30000}) under the behaviour exit of the
\* spawned process: "exit0", a non-zero "exit2", or "timeout" (error.status
\* is null, written 0 here)
execSync(command, exit) ==
    IF exit = "exit0" THEN [threw |-> FALSE, stdout |-> "output"]
    ELSE [threw |-> TRUE,
          stdout |-> IF exit = "exit2" THEN "partial output" ELSE "",
          stderr |-> IF exit = "exit2" THEN "error output" ELSE "",
          status |-> IF exit = "exit2" THEN 2 ELSE 0]

\* ------------------------------------------------------------------------
\* check_dangerous_command (lines 719-760)
\* ------------------------------------------------------------------------
\* lines 727-743 with >= for > at line 733
checkDangerousCommand_AtThreshold(command, config, state) ==
    LET isDangerous == isDangerousCommand(command, config)
        isBlocked == isDangerous /\ state.fatigue.level >= config.fatigue_threshold
    IN  [is_dangerous |-> isDangerous, is_blocked |-> isBlocked,
         fatigue |-> state.fatigue,
         message |-> IF isBlocked THEN {"[no entry]", "INTERLOCK ENGAGED",
                                        "Command is blocked for safety."}
                     ELSE IF isDangerous
                     THEN {"[warning]", "Command is potentially dangerous",
                           "Proceed with caution."}
                     ELSE {"[check]", "Command is safe."},
         override_instruction |-> IF isBlocked THEN Str(OVERRIDE_PHRASE) ELSE Undefined]

checkDangerousCommand(command, config, state) ==
    LET isDangerous == isDangerousCommand(command, config)
        isBlocked == isDangerous /\ state.fatigue.level > config.fatigue_threshold
    IN  IF isBlocked
        THEN [is_dangerous |-> TRUE, is_blocked |-> TRUE, fatigue |-> state.fatigue,
              message |-> {"[no entry]", "INTERLOCK ENGAGED",
                           "Command is blocked for safety."},
              override_instruction |-> Str(OVERRIDE_PHRASE)]
        ELSE IF isDangerous
        THEN [is_dangerous |-> TRUE, is_blocked |-> FALSE, fatigue |-> state.fatigue,
              message |-> {"[warning]", "Command is potentially dangerous",
                           "Proceed with caution."},
              override_instruction |-> Undefined]
        ELSE [is_dangerous |-> FALSE, is_blocked |-> FALSE, fatigue |-> state.fatigue,
              message |-> {"[check]", "Command is safe."},
              override_instruction |-> Undefined]

\* ------------------------------------------------------------------------
\* safe_execute_command (lines 762-885)
\* ------------------------------------------------------------------------
\* line 779 with >= for >
ShouldBlockCommand_AtThreshold(isDangerous, level, threshold) ==
    isDangerous /\ level >= threshold

\* line 779
ShouldBlockCommand(isDangerous, level, threshold) ==
    isDangerous /\ level > threshold

\* the mode test against a misspelt name
IsDryRun_Misspelt(config) == config.execution_mode = "dry-run"

\* the test config.execution_mode === "dry_run" of lines 784, 844, 1000,
\* 1095 and 1140
IsDryRun(config) == config.execution_mode = "dry_run"

\* The primitive effects of a handler, in program order
ExecStep(command) == [op |-> "execSync", command |-> command]
LogStep(line) == [op |-> "console.error", line |-> line]
MkdirStep(dir) == [op |-> "mkdirSync", dir |-> dir]
WriteStep(path, content) == [op |-> "writeFileSync", path |-> path, content |-> content]

\* lines 798-824 and 858-884: run the command and report
RunCommand(command, exit, okStatus, okMessage, fatigue) ==
    LET r == execSync(command, exit)
    IN  IF ~r.threw
        THEN [status |-> okStatus, message |-> okMessage,
              stdout |-> r.stdout, stderr |-> "", exit_code |-> Some(0),
              fatigue |-> fatigue, mode |-> "live", override_required |-> FALSE]
        ELSE [status |-> "ERROR", message |-> {"Command failed"},
              stdout |-> r.stdout, stderr |-> r.stderr,
              exit_code |-> Some(IF r.status = 0 THEN 1 ELSE r.status),
              fatigue |-> fatigue, mode |-> "live", override_required |-> FALSE]

\* line 782
CommandAuditLine(command, overrideReason) ==
    [tag |-> "[AUDIT] Override", action |-> command, reason |-> overrideReason.value]

\* lines 781-825: the accepted override of a blocked command
OverrideCommand(command, overrideReason, config, state, exit) ==
    LET line == CommandAuditLine(command, overrideReason)
    IN  IF IsDryRun(config)
        THEN [out |-> [status |-> "SIMULATED_OVERRIDE",
                       message |-> {"[siren]", "[DRY RUN]", "Override accepted.",
                                    "WOULD have been executed with override"},
                       stdout |-> "", stderr |-> "", exit_code |-> Undefined,
                       fatigue |-> state.fatigue, mode |-> "dry_run",
                       override_required |-> FALSE],
              steps |-> <<LogStep(line)>>]
        ELSE [out |-> RunCommand(command, exit, "EXECUTED_OVERRIDE",
                         {"[siren]", "Command executed with safety override."},
                         state.fatigue),
              steps |-> <<LogStep(line), ExecStep(command)>>]

\* lines 844-884: the command is not blocked
PlainCommand(command, config, state, exit) ==
    IF IsDryRun(config)
    THEN [out |-> [status |-> "SIMULATED",
                   message |-> {"[check]", "[DRY RUN]", "Safety check passed.",
                                "WOULD have been executed"},
                   stdout |-> "", stderr |-> "", exit_code |-> Undefined,
                   fatigue |-> state.fatigue, mode |-> "dry_run",
                   override_required |-> FALSE],
          steps |-> <<>>]
    ELSE [out |-> RunCommand(command, exit, "EXECUTED",
                     {"[check]", "Command executed successfully."}, state.fatigue),
          steps |-> <<ExecStep(command)>>]

\* The handler: out is the returned outcome, steps its effects in order
safeExecuteCommand(command, overrideReason, config, state, exit) ==
    LET isDangerous == isDangerousCommand(command, config)
        shouldBlock == ShouldBlockCommand(isDangerous, state.fatigue.level,
                                          config.fatigue_threshold)
    IN  IF shouldBlock /\ Truthy(overrideReason)
        THEN OverrideCommand(command, overrideReason, config, state, exit)
        ELSE IF shouldBlock
        THEN [out |-> [status |-> "BLOCKED",
                       message |-> {"[no entry]", "INTERLOCK ENGAGED",
                                    "is high-risk and has been blocked",
                                    "To proceed, you MUST reply with", OVERRIDE_PHRASE},
                       stdout |-> "", stderr |-> "", exit_code |-> Undefined,
                       fatigue |-> state.fatigue, mode |-> config.execution_mode,
                       override_required |-> TRUE],
              steps |-> <<>>]
        ELSE PlainCommand(command, config, state, exit)

\* ------------------------------------------------------------------------
\* safe_write_file (lines 887-1176)
\* ------------------------------------------------------------------------
HUMSANA_DIR == <<"~", "/", ".humsana">>
REVIEW_DIR == HUMSANA_DIR \o <<"/", "pending_reviews">>
AUDIT_PATH == HUMSANA_DIR \o <<"/", "audit.json">>

IsSeparator(c) == c = "/" \/ c = "\\"

\* filepath.replace(/[/\\]/g, "_")
SanitizeFilename(filepath) ==
    [i \in 1..Len(filepath) |-> IF IsSeparator(filepath[i]) THEN "_" ELSE filepath[i]]

\* path.dirname on a path of components and "/" separators
dirname(filepath) ==
    LET seps == {i \in 1..Len(filepath) : filepath[i] = "/"}
    IN  IF seps = {} THEN <<".">>
        ELSE LET last == CHOOSE i \in seps : \A j \in seps : j <= i
             IN  IF last = 1 THEN <<"/">> ELSE SubSeq(filepath, 1, last - 1)

\* new Date().toISOString().replace(/[:.]/g, "-"): one name per clock reading
Timestamp(t) == ToString(t)

\* lines 939-948 without the writeFileSync of line 946
saveToPendingReview_NoWrite(filepath, newContent, t) ==
    LET reviewPath == REVIEW_DIR \o <<"/", Timestamp(t), "_">> \o
                          SanitizeFilename(filepath)
    IN  [reviewPath |-> reviewPath, steps |-> <<MkdirStep(REVIEW_DIR)>>]

\* lines 939-948
saveToPendingReview(filepath, newContent, t) ==
    LET reviewPath == REVIEW_DIR \o <<"/", Timestamp(t), "_">> \o
                          SanitizeFilename(filepath)
    IN  [reviewPath |-> reviewPath,
         steps |-> <<MkdirStep(REVIEW_DIR), WriteStep(reviewPath, newContent)>>]

\* lines 987-994 with the soft block tied to the block threshold
WriteTier_BlockOnCritical(fatigueLevel, linesRemoved, config) ==
    LET isHighImpact == linesRemoved > config.write_warn_threshold
        isCriticalImpact == linesRemoved > config.write_block_threshold
    IN  [shouldWarn |-> fatigueLevel > 50 /\ isHighImpact,
         shouldBlock |-> fatigueLevel > 70 /\ isCriticalImpact,
         shouldHardBlock |-> fatigueLevel > 80 /\ isCriticalImpact]

\* lines 987-994 with the hard block tied to the warn threshold
WriteTier_HardBlockOnHigh(fatigueLevel, linesRemoved, config) ==
    LET isHighImpact == linesRemoved > config.write_warn_threshold
    IN  [shouldWarn |-> fatigueLevel > 50 /\ isHighImpact,
         shouldBlock |-> fatigueLevel > 70 /\ isHighImpact,
         shouldHardBlock |-> fatigueLevel > 80 /\ isHighImpact]

\* lines 987-994
WriteTier(fatigueLevel, linesRemoved, config) ==
    LET isHighImpact == linesRemoved > config.write_warn_threshold
        isCriticalImpact == linesRemoved > config.write_block_threshold
    IN  [shouldWarn |-> fatigueLevel > 50 /\ isHighImpact,
         shouldBlock |-> fatigueLevel > 70 /\ isHighImpact,
         shouldHardBlock |-> fatigueLevel > 80 /\ isCriticalImpact]

\* the content whose lines are the letters a..b, one per line
JoinRange(a, b) ==
    [i \in 1..(2 * (b - a) + 1) |-> IF i % 2 = 1 THEN a + (i \div 2) ELSE NL]

\* The file contents of the model: a file of 60 lines, and two rewrites of
\* it that drop its first 35 and its first 55 lines
FullFile == JoinRange(1, 60)
Keep25 == JoinRange(36, 60)
Keep5 == JoinRange(56, 60)
KnownContents == {<<>>, FullFile, Keep25, Keep5}

\* calculateDestructiveImpact, tabulated once over the contents of the model
ImpactTable ==
    [o \in KnownContents, n \in KnownContents |-> calculateDestructiveImpact(o, n)]

ImpactOf(oldContent, newContent) ==
    IF oldContent \in KnownContents /\ newContent \in KnownContents
    THEN ImpactTable[oldContent, newContent]
    ELSE calculateDestructiveImpact(oldContent, newContent)

\* existsSync / readFileSync of lines 976-982
ReadOldContent(filepath, files) ==
    IF filepath \in DOMAIN files
    THEN [oldContent |-> files[filepath], isNewFile |-> FALSE]
    ELSE [oldContent |-> <<>>, isNewFile |-> TRUE]

\* line 998
WriteAuditLine(filepath, linesRemoved, overrideReason) ==
    [tag |-> "[AUDIT] Write Override", action |-> filepath,
     removed |-> linesRemoved, reason |-> overrideReason.value]

\* lines 1022-1023, 1118-1119, 1161-1162
LiveWriteSteps(filepath, newContent) ==
    <<MkdirStep(dirname(filepath)), WriteStep(filepath, newContent)>>

WriteOutcome(status, message, filepath, impact, state, mode, reviewPath, overrideRequired) ==
    [status |-> status, message |-> message, filepath |-> filepath,
     impact |-> [lines_removed |-> impact.linesRemoved,
                 lines_added |-> impact.linesAdded,
                 percentage_removed |-> impact.percentageRemoved],
     fatigue |-> state.fatigue, mode |-> mode,
     review_path |-> reviewPath, override_required |-> overrideRequired]

\* lines 996-1037 with the audit line written after the file
OverrideWrite_LogsLast(filepath, newContent, overrideReason, impact, config, state) ==
    LET line == WriteAuditLine(filepath, impact.linesRemoved, overrideReason)
    IN  IF IsDryRun(config)
        THEN [out |-> WriteOutcome("SIMULATED_OVERRIDE",
                          {"[siren]", "[DRY RUN]", "Write override accepted.",
                           "File WOULD have been written."},
                          filepath, impact, state, "dry_run", Undefined, FALSE),
              steps |-> <<LogStep(line)>>]
        ELSE [out |-> WriteOutcome("WRITTEN_OVERRIDE",
                          {"[siren]", "File written with safety override."},
                          filepath, impact, state, "live", Undefined, FALSE),
              steps |-> LiveWriteSteps(filepath, newContent) \o <<LogStep(line)>>]

\* lines 996-1037: the accepted override of a blocked write
OverrideWrite(filepath, newContent, overrideReason, impact, config, state) ==
    LET line == WriteAuditLine(filepath, impact.linesRemoved, overrideReason)
    IN  IF IsDryRun(config)
        THEN [out |-> WriteOutcome("SIMULATED_OVERRIDE",
                          {"[siren]", "[DRY RUN]", "Write override accepted.",
                           "File WOULD have been written."},
                          filepath, impact, state, "dry_run", Undefined, FALSE),
              steps |-> <<LogStep(line)>>]
        ELSE [out |-> WriteOutcome("WRITTEN_OVERRIDE",
                          {"[siren]", "File written with safety override."},
                          filepath, impact, state, "live", Undefined, FALSE),
              steps |-> <<LogStep(line)>> \o LiveWriteSteps(filepath, newContent)]

\* lines 1039-1091: hard block and soft block
BlockWrite(message, filepath, newContent, impact, config, state, t) ==
    LET saved == saveToPendingReview(filepath, newContent, t)
    IN  [out |-> WriteOutcome("BLOCKED",
                     message \cup {"[no entry]", "INTERLOCK ENGAGED", OVERRIDE_PHRASE},
                     filepath, impact, state, config.execution_mode,
                     Some(saved.reviewPath), TRUE),
         steps |-> saved.steps]

\* lines 1093-1137
WarnWrite(filepath, newContent, impact, config, state) ==
    IF IsDryRun(config)
    THEN [out |-> WriteOutcome("SIMULATED_WARNING",
                      {"[warning]", "[DRY RUN]", "Warning: Large AI Edit",
                       "File WOULD have been written."},
                      filepath, impact, state, "dry_run", Undefined, FALSE),
          steps |-> <<>>]
    ELSE [out |-> WriteOutcome("WRITTEN_WARNING",
                      {"[warning]", "File written with warning."},
                      filepath, impact, state, "live", Undefined, FALSE),
          steps |-> LiveWriteSteps(filepath, newContent)]

\* lines 1139-1175
PlainWrite(filepath, newContent, isNewFile, impact, config, state) ==
    IF IsDryRun(config)
    THEN [out |-> WriteOutcome("SIMULATED",
                      {"[check]", "[DRY RUN]", "Safety check passed.",
                       IF isNewFile THEN "New file" ELSE "Lines removed",
                       "File WOULD have been written."},
                      filepath, impact, state, "dry_run", Undefined, FALSE),
          steps |-> <<>>]
    ELSE [out |-> WriteOutcome("WRITTEN", {"[check]", "File written successfully."},
                      filepath, impact, state, "live", Undefined, FALSE),
          steps |-> LiveWriteSteps(filepath, newContent)]

\* The handler on the file system files (a function from the existing paths
\* to their content) at clock reading t: out is the returned outcome, steps
\* its effects in order
safeWriteFile(filepath, newContent, overrideReason, config, state, files, t) ==
    LET old == ReadOldContent(filepath, files)
        impact == ImpactOf(old.oldContent, newContent)
        tier == WriteTier(state.fatigue.level, impact.linesRemoved, config)
    IN  IF (tier.shouldBlock \/ tier.shouldHardBlock) /\ Truthy(overrideReason)
        THEN OverrideWrite(filepath, newContent, overrideReason, impact, config, state)
        ELSE IF tier.shouldHardBlock
        THEN BlockWrite({"High-Risk AI Edit Blocked", "To proceed, you MUST reply with"},
                        filepath, newContent, impact, config, state, t)
        ELSE IF tier.shouldBlock
        THEN BlockWrite({"AI Rewrite Blocked", "To proceed, reply with"},
                        filepath, newContent, impact, config, state, t)
        ELSE IF tier.shouldWarn
        THEN WarnWrite(filepath, newContent, impact, config, state)
        ELSE PlainWrite(filepath, newContent, old.isNewFile, impact, config, state)

\* ------------------------------------------------------------------------
\* The server: the home directory, the file system and the tool calls
\* ------------------------------------------------------------------------
VARIABLES
    configFile,     \* ~/.humsana/config.yaml
    database,       \* ~/.humsana/signals.db: the row of the 5 minute averages
    activityFile,   \* ~/.humsana/activity.json: the heartbeats
    now,            \* Date.now(), in minutes
    ticks,          \* clock advances so far
    files,          \* the file system: existing path -> content
    dirs,           \* the directories that exist
    stderrLog,      \* what console.error has written
    executed,       \* the commands execSync has run
    call,           \* the last tool call: its name, arguments and clock reading
    result,         \* what the last tool call returned
    lastSteps,      \* the effects of the last tool call, in order
    calls,          \* tool calls so far
    inflight        \* the requests received and not yet answered, oldest first

vars == <<configFile, database, activityFile, now, ticks, files, dirs,
          stderrLog, executed, call, result, lastSteps, calls, inflight>>

\* the sources a call reads and nothing writes
sources == <<configFile, database, activityFile>>

ExistingPath == <<"w", "/", "a">>
NewPath == <<"n", "/", "b">>

CmdList == <<"l", "s", " ", "-", "l", "a">>
CmdDrop == <<"D", "R", "O", "P", " ", "T", "A", "B", "L", "E", " ", "u">>

ConfigFiles ==
    {Absent, Unreadable,
     Readable("execution_mode" :> "live"),
     Readable(("execution_mode" :> "dry_run") @@ ("fatigue_threshold" :> <<"6", "0">>)
              @@ ("write_warn_threshold" :> <<"-", "1">>))}

Row(stress) == [stress |-> stress, focus |-> 80, load |-> 30, wpm |-> 60]

\* stress 0.5 adds 20 points of fatigue, stress 0.63 adds 25
Databases == {Absent, Readable(Row(50)), Readable(Row(63))}

\* no log: uptime 0; started at 0: 12 hours (60 points) at the first clock
\* reading; a two hour break and a restart at 120: 10 hours (50 points, 51
\* after a tick)
ActivityFiles == {Absent, Readable(<<0, 30>>), Readable(<<0, 120, 150>>)}

\* the metrics and heartbeat logs the server starts with: fatigue 0, 60, 70
\* (71 after a tick), 75 and 85 at the first clock reading
Scenarios ==
    {[database |-> Absent, activity |-> Absent],
     [database |-> Absent, activity |-> Readable(<<0, 30>>)],
     [database |-> Readable(Row(50)), activity |-> Readable(<<0, 120, 150>>)],
     [database |-> Readable(Row(63)), activity |-> Readable(<<0, 120, 150>>)],
     [database |-> Readable(Row(63)), activity |-> Readable(<<0, 30>>)]}

Commands == {CmdList, CmdDrop}
Reasons == {Undefined, Str(<<>>), Str(<<"P", "0">>)}
Contents == {Keep25, Keep5}
Paths == {ExistingPath, NewPath}
Exits == {"exit0", "exit2", "timeout"}

\* the server has started over one of the configuration files and one of the
\* scenarios, and no tool has been called yet
Start(configFiles, scenarios) ==
    /\ configFile \in configFiles
    /\ \E s \in scenarios : database = s.database /\ activityFile = s.activity
    /\ now = 720
    /\ ticks = 0
    /\ files = (ExistingPath :> FullFile)
    /\ dirs = {<<"w">>, <<"~">>, HUMSANA_DIR}
    /\ stderrLog = <<>>
    /\ executed = <<>>
    /\ call = [tool |-> "none"]
    /\ result = [status |-> "none"]
    /\ lastSteps = <<>>
    /\ calls = 0
    /\ inflight = <<>>

Init == Start(ConfigFiles, Scenarios)

\* the effect of one primitive on the world w
ApplyStep(w, st) ==
    CASE st.op = "execSync" -> [w EXCEPT !.executed = Append(@, st.command)]
      [] st.op = "console.error" -> [w EXCEPT !.stderrLog = Append(@, st.line)]
      [] st.op = "mkdirSync" -> [w EXCEPT !.dirs = @ \cup {st.dir}]
      [] st.op = "writeFileSync" -> [w EXCEPT !.files = (st.path :> st.content) @@ @]

RECURSIVE ApplySteps(_, _)
ApplySteps(w, steps) ==
    IF Len(steps) = 0 THEN w
    ELSE ApplySteps(ApplyStep(w, Head(steps)), Tail(steps))

\* a handler ran to completion: its outcome is returned, its effects are done
Complete(request, r) ==
    LET w == ApplySteps([files |-> files, dirs |-> dirs, stderrLog |-> stderrLog,
                         executed |-> executed], r.steps)
    IN  /\ calls < MaxCalls
        /\ calls' = calls + 1
        /\ call' = request
        /\ result' = r.out
        /\ lastSteps' = r.steps
        /\ files' = w.files
        /\ dirs' = w.dirs
        /\ stderrLog' = w.stderrLog
        /\ executed' = w.executed
        /\ UNCHANGED <<configFile, database, activityFile, now, ticks, inflight>>

CurrentConfig == loadConfig(configFile)
CurrentState == getCurrentState(database, activityFile, now)

\* lines 1276-1286
GetUserState ==
    Complete([tool |-> "get_user_state", at |-> now], [out |-> CurrentState, steps |-> <<>>])

\* lines 1288-1299 with the check written to the log
CheckDangerousCommand_Logs ==
    \E command \in Commands :
        Complete([tool |-> "check_dangerous_command", at |-> now, command |-> command],
                 [out |-> checkDangerousCommand(OrEmpty(Str(command)), CurrentConfig,
                                                CurrentState),
                  steps |-> <<LogStep([tag |-> "[AUDIT] Check", action |-> command])>>])

\* lines 1288-1299
CheckDangerousCommand ==
    \E command \in Commands :
        Complete([tool |-> "check_dangerous_command", at |-> now, command |-> command],
                 [out |-> checkDangerousCommand(OrEmpty(Str(command)), CurrentConfig,
                                                CurrentState),
                  steps |-> <<>>])

\* lines 1301-1313 with an accepted override remembered: a command whose
\* override is in the log is taken as overridden again
SafeExecuteCommand_RemembersOverride ==
    \E command \in Commands, overrideReason \in Reasons, exit \in Exits :
        LET remembered ==
                \E i \in 1..Len(stderrLog) : stderrLog[i].action = command
        IN  Complete([tool |-> "safe_execute_command", at |-> now, command |-> command,
                      override_reason |-> overrideReason],
                     safeExecuteCommand(OrEmpty(Str(command)),
                                        IF remembered /\ ~Truthy(overrideReason)
                                        THEN Str(<<"P", "0">>) ELSE overrideReason,
                                        CurrentConfig, CurrentState, exit))

\* lines 1301-1313
SafeExecuteCommand ==
    \E command \in Commands, overrideReason \in Reasons, exit \in Exits :
        Complete([tool |-> "safe_execute_command", at |-> now, command |-> command,
                  override_reason |-> overrideReason],
                 safeExecuteCommand(OrEmpty(Str(command)), overrideReason,
                                    CurrentConfig, CurrentState, exit))

\* lines 1315-1328
SafeWriteFile ==
    \E filepath \in Paths, content \in Contents, overrideReason \in Reasons :
        Complete([tool |-> "safe_write_file", at |-> now, filepath |-> filepath,
                  content |-> content, override_reason |-> overrideReason],
                 safeWriteFile(OrEmpty(Str(filepath)), OrEmpty(Str(content)),
                               overrideReason, CurrentConfig, CurrentState,
                               files, now))

\* time passes between two calls (12 minutes: one point of the uptime share)
Tick ==
    /\ ticks < MaxTicks
    /\ ticks' = ticks + 1
    /\ now' = now + 12
    /\ UNCHANGED <<configFile, database, activityFile, files, dirs, stderrLog,
                   executed, call, result, lastSteps, calls, inflight>>

Next ==
    \/ GetUserState
    \/ CheckDangerousCommand
    \/ SafeExecuteCommand
    \/ SafeWriteFile
    \/ Tick

Spec == Init /\ [][Next]_vars

\* ------------------------------------------------------------------------
\* Properties
\* ------------------------------------------------------------------------
\* this step is a call of the tool
IsCall(tool) == calls' = calls + 1 /\ call'.tool = tool

NoReason(r) == ~r.defined \/ Len(r.value) = 0
HasReason(r) == r.defined /\ Len(r.value) > 0

\* the fatigue level and the thresholds a call made now works with
Level == CurrentState.fatigue.level
Threshold == CurrentConfig.fatigue_threshold
Simulating == CurrentConfig.execution_mode = "dry_run"
Live == CurrentConfig.execution_mode = "live"

\* a target file is as it was
TargetUnchanged(p) ==
    /\ (p \in DOMAIN files') = (p \in DOMAIN files)
    /\ p \in DOMAIN files => files'[p] = files[p]

\* C1: safe_execute_command returns BLOCKED exactly when the command is
\* dangerous, the fatigue level is strictly above the threshold and no
\* non-empty override reason is given; the blocked outcome carries the
\* override instruction and nothing is executed.  At level = threshold a
\* dangerous command is not blocked, at threshold + 1 it is.
C1_BlocksAboveThreshold ==
    [][IsCall("safe_execute_command") =>
        LET dangerous == isDangerousCommand(call'.command, CurrentConfig)
            should_block == dangerous /\ Level > Threshold
            noReason == NoReason(call'.override_reason)
        IN  /\ (should_block /\ noReason) =>
                 /\ result'.status = "BLOCKED"
                 /\ OVERRIDE_PHRASE \in result'.message
                 /\ result'.override_required
                 /\ executed' = executed
            /\ result'.status = "BLOCKED" => (should_block /\ noReason)
            /\ (dangerous /\ Level = Threshold) => result'.status # "BLOCKED"
            /\ (dangerous /\ Level = Threshold + 1 /\ noReason) =>
                 result'.status = "BLOCKED"]_vars

\* a dangerous command blocked at fatigue 71 under the threshold 70
C1_Witness ==
    /\ call.tool = "safe_execute_command"
    /\ call.command = CmdDrop
    /\ result.status = "BLOCKED"
    /\ result.fatigue.level = 71
    /\ Threshold = 70
    /\ executed = <<>>

\* the simulated form of a live status
SimulatedLabel(status) ==
    CASE status = "EXECUTED" -> "SIMULATED"
      [] status = "EXECUTED_OVERRIDE" -> "SIMULATED_OVERRIDE"
      [] status = "WRITTEN" -> "SIMULATED"
      [] status = "WRITTEN_WARNING" -> "SIMULATED_WARNING"
      [] status = "WRITTEN_OVERRIDE" -> "SIMULATED_OVERRIDE"
      [] OTHER -> status

\* what the same call returns under the same configuration switched to live
LiveOutcome(c) ==
    LET live == [CurrentConfig EXCEPT !.execution_mode = "live"]
    IN  IF c.tool = "safe_execute_command"
        THEN safeExecuteCommand(c.command, c.override_reason, live, CurrentState,
                                "exit0").out
        ELSE safeWriteFile(c.filepath, c.content, c.override_reason, live,
                           CurrentState, files, now).out

\* C2: while execution_mode is dry_run no call of safe_execute_command or
\* safe_write_file executes a command or changes a target file, whatever the
\* outcome; the status is the simulated label of the status live mode gives.
C2_SimulateHasNoSideEffect ==
    [][(Simulating /\ (IsCall("safe_execute_command") \/ IsCall("safe_write_file"))) =>
        /\ executed' = executed
        /\ \A p \in Paths : TargetUnchanged(p)
        /\ \A i \in 1..Len(lastSteps') : lastSteps'[i].op # "execSync"
        /\ result'.status = SimulatedLabel(LiveOutcome(call').status)]_vars

\* an overridden write in dry_run mode: the file is as it was
C2_Witness ==
    /\ Simulating
    /\ call.tool = "safe_write_file"
    /\ call.filepath = ExistingPath
    /\ result.status = "SIMULATED_OVERRIDE"
    /\ files[ExistingPath] = FullFile
    /\ executed = <<>>

\* the durable audit trail: the entries of ~/.humsana/audit.json
AuditTrail(fs) == IF AUDIT_PATH \in DOMAIN fs THEN fs[AUDIT_PATH] ELSE <<>>

\* the first effect of the call is the [AUDIT] line for this action and reason
LoggedFirst(action, reason) ==
    /\ Len(lastSteps') >= 1
    /\ lastSteps'[1].op = "console.error"
    /\ lastSteps'[1].line.action = action
    /\ lastSteps'[1].line.reason = reason.value
    /\ stderrLog' = Append(stderrLog, lastSteps'[1].line)

\* C3: a blocked-eligible command with a non-empty override reason gets an
\* entry appended to the durable audit trail before anything is executed, and
\* an override outcome (SIMULATED_OVERRIDE when simulating; EXECUTED_OVERRIDE,
\* or the failure status on a non-zero exit, when live), never BLOCKED.
C3_OverrideIsAudited ==
    [][(/\ IsCall("safe_execute_command")
        /\ isDangerousCommand(call'.command, CurrentConfig)
        /\ Level > Threshold
        /\ HasReason(call'.override_reason)) =>
        /\ Len(AuditTrail(files')) = Len(AuditTrail(files)) + 1
        /\ LoggedFirst(call'.command, call'.override_reason)
        /\ Simulating => result'.status = "SIMULATED_OVERRIDE"
        /\ Live => result'.status \in {"EXECUTED_OVERRIDE", "ERROR"}
        /\ result'.status # "BLOCKED"]_vars

\* C4: check_dangerous_command changes nothing: the files (audit trail and
\* review directory among them), the directories, the configuration, the
\* metrics, the heartbeat log and stderr are as before, and nothing is
\* executed; asked again about the same command at the same clock reading it
\* returns the same result.
C4_CheckHasNoSideEffect ==
    [][IsCall("check_dangerous_command") =>
        /\ UNCHANGED <<files, dirs, stderrLog, executed, sources>>
        /\ Len(lastSteps') = 0
        /\ (/\ call.tool = "check_dangerous_command"
            /\ call.command = call'.command
            /\ call.at = call'.at) => result' = result]_vars

\* a second check in a row that reports a blocked command
C4_Witness ==
    /\ calls = 2
    /\ call.tool = "check_dangerous_command"
    /\ result.is_blocked
    /\ stderrLog = <<>>
    /\ executed = <<>>
    /\ files = (ExistingPath :> FullFile)

\* the tier the file-write protocol names for a fatigue level and a number
\* of removed lines
WriteDecision(level, linesRemoved, config) ==
    LET high_impact == linesRemoved > config.write_warn_threshold
        critical_impact == linesRemoved > config.write_block_threshold
    IN  IF level > 80 /\ critical_impact THEN "hard_block"
        ELSE IF level > 70 /\ high_impact THEN "block"
        ELSE IF level > 50 /\ high_impact THEN "warn"
        ELSE "plain"

\* the lines the write c would remove from its target as it is now
LinesRemoved(c) ==
    ImpactOf(IF c.filepath \in DOMAIN files THEN files[c.filepath] ELSE <<>>,
             c.content).linesRemoved

DecisionOf(c) == WriteDecision(Level, LinesRemoved(c), CurrentConfig)

InReviewDir(path) ==
    /\ Len(path) > Len(REVIEW_DIR) + 1
    /\ SubSeq(path, 1, Len(REVIEW_DIR)) = REVIEW_DIR

\* the outcome names a snapshot in the review directory that holds content
SnapshotHolds(out, fs, content) ==
    /\ out.review_path.defined
    /\ InReviewDir(out.review_path.value)
    /\ out.review_path.value \in DOMAIN fs
    /\ fs[out.review_path.value] = content

\* C5: a write decided block or hard_block without an override reason leaves
\* the target file as it was in both execution modes, creates a snapshot of
\* exactly the proposed content in the review directory, and returns a
\* blocked outcome with the snapshot's path and the override instruction.
C5_BlockedWriteIsSnapshotted ==
    [][(/\ IsCall("safe_write_file")
        /\ DecisionOf(call') \in {"block", "hard_block"}
        /\ NoReason(call'.override_reason)) =>
        /\ TargetUnchanged(call'.filepath)
        /\ result'.status = "BLOCKED"
        /\ SnapshotHolds(result', files', call'.content)
        /\ REVIEW_DIR \in dirs'
        /\ OVERRIDE_PHRASE \in result'.message
        /\ result'.override_required]_vars

\* a hard block in live mode: the snapshot holds the rewrite, the file its
\* old content
C5_Witness ==
    /\ call.tool = "safe_write_file"
    /\ Live
    /\ result.status = "BLOCKED"
    /\ "High-Risk AI Edit Blocked" \in result.message
    /\ SnapshotHolds(result, files, Keep5)
    /\ files[ExistingPath] = FullFile

C7_OverrideBeatsBlock ==
    [][(/\ IsCall("safe_write_file")
        /\ DecisionOf(call') \in {"block", "hard_block"}
        /\ HasReason(call'.override_reason)) =>
        /\ LoggedFirst(call'.filepath, call'.override_reason)
        /\ Live =>
             /\ result'.status = "WRITTEN_OVERRIDE"
             /\ Len(lastSteps') = 3
             /\ lastSteps'[2].op = "mkdirSync"
             /\ lastSteps'[2].dir = dirname(call'.filepath)
             /\ lastSteps'[3].op = "writeFileSync"
             /\ dirname(call'.filepath) \in dirs'
             /\ call'.filepath \in DOMAIN files'
             /\ files'[call'.filepath] = call'.content
        /\ Simulating =>
             /\ result'.status = "SIMULATED_OVERRIDE"
             /\ files' = files
        /\ \A path \in DOMAIN files' :
             InReviewDir(path) => (path \in DOMAIN files /\ files'[path] = files[path])
        /\ ~result'.review_path.defined
        /\ result'.status # "BLOCKED"
        /\ ~result'.override_required]_vars

\* a hard-blocked rewrite written under an override in live mode
C7_Witness ==
    /\ call.tool = "safe_write_file"
    /\ Live
    /\ result.status = "WRITTEN_OVERRIDE"
    /\ result.fatigue.level > 80
    /\ result.impact.lines_removed = 55
    /\ files[ExistingPath] = Keep5
    /\ Len(stderrLog) = 1
    /\ \A path \in DOMAIN files : ~InReviewDir(path)

\* C8: a write to a path that does not exist reports lines_removed = 0 and
\* percentage_removed = 0 and is neither warned nor blocked, for every
\* content, fatigue level and pair of configured write thresholds.
C8_NewFileNeverDestructive ==
    [][(IsCall("safe_write_file") /\ call'.filepath \notin DOMAIN files) =>
        /\ result'.impact.lines_removed = 0
        /\ result'.impact.percentage_removed = 0
        /\ result'.status \in {"WRITTEN", "SIMULATED"}
        /\ Simulating => result'.status = "SIMULATED"
        /\ Live => result'.status = "WRITTEN"]_vars

\* the outcome carries a cautionary message
Cautionary(message) ==
    \/ "[warning]" \in message
    \/ "Proceed with caution." \in message
    \/ "Command is potentially dangerous" \in message

\* C9: a dangerous command at a fatigue level not above the threshold is
\* executed or simulated by safe_execute_command, and its outcome carries a
\* cautionary warning that the outcome of a harmless command does not.
C9_DangerousUnblockedIsWarned ==
    [][(/\ IsCall("safe_execute_command")
        /\ isDangerousCommand(call'.command, CurrentConfig)
        /\ Level <= Threshold) =>
        /\ result'.status \in {"SIMULATED", "EXECUTED", "ERROR"}
        /\ Simulating => executed' = executed
        /\ Live => executed' = Append(executed, call'.command)
        /\ Cautionary(result'.message)]_vars

\* C10: when config.yaml is missing or unreadable the defaults apply
\* (dry_run, fatigue threshold 70, write thresholds 30 and 50, the built-in
\* patterns, no deny or allow patterns), so no command has been executed and
\* every target file is as it was at the start.
C10_DefaultsWithoutConfig ==
    configFile.kind \in {"absent", "unreadable"} =>
        /\ CurrentConfig.execution_mode = "dry_run"
        /\ CurrentConfig.fatigue_threshold = 70
        /\ CurrentConfig.write_warn_threshold = 30
        /\ CurrentConfig.write_block_threshold = 50
        /\ CurrentConfig.dangerous_commands = DEFAULT_DANGEROUS_PATTERNS
        /\ Len(CurrentConfig.deny_patterns) = 0
        /\ Len(CurrentConfig.allow_patterns) = 0
        /\ executed = <<>>
        /\ NewPath \notin DOMAIN files
        /\ files[ExistingPath] = FullFile

\* an unreadable config.yaml, and an overridden command that was only
\* simulated
C10_Witness ==
    /\ configFile.kind = "unreadable"
    /\ calls = 2
    /\ call.tool = "safe_execute_command"
    /\ result.status = "SIMULATED_OVERRIDE"
    /\ executed = <<>>

\* ------------------------------------------------------------------------
\* Pure functions applied on their own: the server is at rest, call holds
\* the function and its arguments, result what it returned
\* ------------------------------------------------------------------------
server == <<configFile, database, activityFile, now, ticks, files, dirs,
            stderrLog, executed, lastSteps, calls, inflight>>

AtRest ==
    /\ configFile = Absent
    /\ database = Absent
    /\ activityFile = Absent
    /\ now = 720
    /\ ticks = 0
    /\ files = (ExistingPath :> FullFile)
    /\ dirs = {<<"w">>, <<"~">>, HUMSANA_DIR}
    /\ stderrLog = <<>>
    /\ executed = <<>>
    /\ lastSteps = <<>>
    /\ calls = 0
    /\ inflight = <<>>
    /\ call = [tool |-> "none"]
    /\ result = [status |-> "none"]

\* ------------------------------------------------------------------------
\* The risk classifier on its own (isDangerousCommand, lines 707-717)
\* ------------------------------------------------------------------------
CmdDropUsers == <<"D", "R", "O", "P", " ", "T", "A", "B", "L", "E", " ", "u", "s", "e", "r", "s">>

\* "Rm -Rf /tmp/x", "git push origin", "git push -F", "drop  table u" (two
\* spaces), "MKFS", "nuke all" and the empty command
ClassifiedCommands ==
    {CmdDropUsers, CmdList,
     <<"R", "m", " ", "-", "R", "f", " ", "/", "t", "m", "p", "/", "x">>,
     <<"g", "i", "t", " ", "p", "u", "s", "h", " ", "o", "r", "i", "g", "i", "n">>,
     <<"g", "i", "t", " ", "p", "u", "s", "h", " ", "-", "F">>,
     <<"d", "r", "o", "p", " ", " ", "t", "a", "b", "l", "e", " ", "u">>,
     <<"M", "K", "F", "S">>,
     <<"n", "u", "k", "e", " ", "a", "l", "l">>,
     <<>>}

\* text put before or after a command
Affixes == {<<>>, <<"e", "c", "h", "o", " ">>, <<" ", ";", " ", "X">>}

\* the Config values the classifier is applied to: the defaults, and a Config
\* whose deny_patterns (line 426) holds a pattern written in capitals
ConfigWithDeny == [ConfigDefaults EXCEPT !.deny_patterns = << <<"N", "U", "K", "E">> >>]
ClassifierConfigs == {ConfigDefaults, ConfigWithDeny}

Classify ==
    \E command \in ClassifiedCommands, config \in ClassifierConfigs :
        /\ call' = [tool |-> "isDangerousCommand", command |-> command,
                    config |-> config]
        /\ result' = [status |-> "returned",
                      dangerous |-> isDangerousCommand(command, config)]
        /\ UNCHANGED server

\* the command just classified, with text added before and after it
ClassifyExtended ==
    /\ call.tool = "isDangerousCommand"
    /\ call.command \in ClassifiedCommands
    /\ \E before \in Affixes, after \in Affixes :
         LET command == before \o call.command \o after
         IN  /\ call' = [tool |-> "isDangerousCommand", command |-> command,
                         config |-> call.config]
             /\ result' = [status |-> "returned",
                           dangerous |-> isDangerousCommand(command, call.config)]
             /\ UNCHANGED server

NextClassifier == Classify \/ ClassifyExtended

SpecClassifier == AtRest /\ [][NextClassifier]_vars

\* two characters that are the same letter, whatever their case
SameLetter(c, d) ==
    \/ c = d
    \/ c \in UpperCase /\ LowerOf[c] = d
    \/ d \in UpperCase /\ LowerOf[d] = c

\* pattern occurs in command at some position, case ignored
OccursIn(command, pattern) ==
    \E i \in 1..(Len(command) - Len(pattern) + 1) :
        \A k \in 1..Len(pattern) : SameLetter(command[i + k - 1], pattern[k])

MergedPatterns(config) ==
    {config.dangerous_commands[k] : k \in 1..Len(config.dangerous_commands)}
        \cup {config.deny_patterns[k] : k \in 1..Len(config.deny_patterns)}

\* C11: the classifier answers dangerous exactly when some pattern of the
\* merged set occurs in the command as a substring, case ignored: "DROP
\* TABLE users" is dangerous, "ls -la" is not, and a dangerous command with
\* text added before or after it is still dangerous.
C11_SubstringIgnoringCase ==
    [][call'.tool = "isDangerousCommand" =>
        /\ result'.dangerous =
             (\E p \in MergedPatterns(call'.config) : OccursIn(call'.command, p))
        /\ call'.command = CmdDropUsers => result'.dangerous
        /\ call'.command = CmdList => ~result'.dangerous
        /\ (call.tool = "isDangerousCommand" /\ result.dangerous
                /\ call'.config = call.config
                /\ \E i \in 0..(Len(call'.command) - Len(call.command)) :
                     SubSeq(call'.command, i + 1, i + Len(call.command)) = call.command)
             => result'.dangerous]_vars

\* "DROP TABLE users" with text before and after it, classified dangerous
C11_Witness ==
    /\ call.tool = "isDangerousCommand"
    /\ call.command = <<"e", "c", "h", "o", " ">> \o CmdDropUsers \o <<" ", ";", " ", "X">>
    /\ result.dangerous

\* ------------------------------------------------------------------------
\* The server over other home directories: a config.yaml that lists a deny
\* pattern (README.md lines 133-137), and metrics and heartbeat sources that
\* are missing, unreadable or empty
\* ------------------------------------------------------------------------
DenyingConfigFile ==
    Readable(("execution_mode" :> "live") @@ ("deny_patterns" :> <<CmdList>>))

DegradedScenarios ==
    {[database |-> Unreadable, activity |-> Readable(<<0, 30>>)],
     [database |-> Absent, activity |-> Readable(<<0, 120, 150>>)],
     [database |-> Unreadable, activity |-> Unreadable],
     [database |-> Readable(Row(50)), activity |-> Absent],
     [database |-> Readable(Row(63)), activity |-> Unreadable],
     [database |-> Readable(Row(50)), activity |-> Readable(<<>>)],
     [database |-> Readable(Row(63)), activity |-> Readable(<<0, 30>>)]}

SpecDegraded == Start({DenyingConfigFile}, DegradedScenarios) /\ [][Next]_vars

\* the deny patterns the user's config.yaml lists
ListedDenyPatterns ==
    IF configFile.kind = "ok" /\ "deny_patterns" \in DOMAIN configFile.data
    THEN {configFile.data["deny_patterns"][k] :
              k \in 1..Len(configFile.data["deny_patterns"])}
    ELSE {}

\* C12: a command that contains a deny pattern listed in config.yaml is
\* reported dangerous by check_dangerous_command, and safe_execute_command
\* blocks it when the fatigue level is above the threshold and no override
\* reason is given, also when no built-in pattern occurs in it.
C12_DenyPatternsExtend ==
    [][((IsCall("check_dangerous_command") \/ IsCall("safe_execute_command"))
            /\ \E p \in ListedDenyPatterns : OccursIn(call'.command, p)) =>
        /\ IsCall("check_dangerous_command") =>
             /\ result'.is_dangerous
             /\ Level > Threshold => result'.is_blocked
        /\ (/\ IsCall("safe_execute_command")
            /\ Level > Threshold
            /\ NoReason(call'.override_reason)) =>
             /\ result'.status = "BLOCKED"
             /\ executed' = executed]_vars

\* ------------------------------------------------------------------------
\* The live server on a disk that refuses a write: writeFileSync throws, and
\* neither safeWriteFile (lines 1021-1023, 1118-1119, 1161-1162) nor the
\* dispatcher (lines 1273-1331) has a try around it
\* ------------------------------------------------------------------------
UncaughtException == [status |-> "uncaught exception", message |-> {"EACCES"}]

\* the handler run r when writeFileSync on filepath throws: the effects before
\* the write are done, the exception leaves the handler
WithRefusedWrite(r, filepath) ==
    LET at == {i \in 1..Len(r.steps) :
                  r.steps[i].op = "writeFileSync" /\ r.steps[i].path = filepath}
    IN  IF at = {} THEN r
        ELSE LET first == CHOOSE i \in at : \A j \in at : i <= j
             IN  [out |-> UncaughtException, steps |-> SubSeq(r.steps, 1, first - 1)]

\* lines 1315-1328 when the target file cannot be written
SafeWriteFileRefused ==
    \E filepath \in Paths, content \in Contents, overrideReason \in Reasons :
        Complete([tool |-> "safe_write_file", at |-> now, filepath |-> filepath,
                  content |-> content, override_reason |-> overrideReason],
                 WithRefusedWrite(safeWriteFile(OrEmpty(Str(filepath)),
                                                OrEmpty(Str(content)), overrideReason,
                                                CurrentConfig, CurrentState, files, now),
                                  filepath))

NextFaults == Next \/ SafeWriteFileRefused

SpecFaults ==
    Start({Readable("execution_mode" :> "live")}, Scenarios) /\ [][NextFaults]_vars

\* how often the last call ran the primitive op
Attempts(steps, op) == Cardinality({i \in 1..Len(steps) : steps[i].op = op})

\* C13: a live execution or a live write that fails is attempted once and
\* comes back as the failure outcome (status ERROR in this code) with the
\* captured stdout, stderr and exit code; no call ends in an exception
\* instead of an outcome.
C13_FailureIsAnOutcome ==
    [][(IsCall("safe_execute_command") \/ IsCall("safe_write_file")) =>
        /\ result'.status # UncaughtException.status
        /\ Attempts(lastSteps', "execSync") <= 1
        /\ IsCall("safe_execute_command") =>
             /\ Len(executed') <= Len(executed) + 1
             /\ (result'.exit_code.defined /\ result'.exit_code.value # 0) =>
                  /\ result'.status = "ERROR"
                  /\ result'.stdout \in {"", "partial output"}
                  /\ result'.stderr \in {"", "error output"}
             /\ result'.status \in {"EXECUTED", "EXECUTED_OVERRIDE"} =>
                  result'.exit_code = Some(0)]_vars

\* the uptime the heartbeat log gives now, in minutes
UptimeNow == getCognitiveUptime(activityFile, now).hours

\* the share of the fatigue level that uptime alone gives: 60 points at 12
\* hours, rounded to a whole number
UptimeShare(minutes) == (5 * Min(720, minutes) + 30) \div 60

\* what the call c returns when the metrics are there and all zero
WithZeroMetrics(c) ==
    LET state == getCurrentState(Readable([stress |-> 0, focus |-> 0, load |-> 0,
                                           wpm |-> 0]), activityFile, now)
    IN  CASE c.tool = "check_dangerous_command" ->
               [blocked |-> checkDangerousCommand(c.command, CurrentConfig, state).is_blocked]
          [] c.tool = "safe_execute_command" ->
               [blocked |-> safeExecuteCommand(c.command, c.override_reason, CurrentConfig,
                                               state, "exit0").out.status = "BLOCKED"]
          [] c.tool = "safe_write_file" ->
               [blocked |-> safeWriteFile(c.filepath, c.content, c.override_reason,
                                          CurrentConfig, state, files, now).out.status
                                = "BLOCKED"]
          [] OTHER -> [blocked |-> FALSE]

\* C14: while signals.db is missing or cannot be read every tool call still
\* returns its structured result: stress, focus, cognitive load and typing
\* speed are 0, the fatigue level is the uptime share alone, and a call is
\* blocked only if it would be blocked with all metrics at zero.
C14_MissingMetricsDegrade ==
    [][(calls' = calls + 1 /\ database.kind # "ok") =>
        /\ result'.fatigue.level = UptimeShare(UptimeNow)
        /\ result'.fatigue.uptime_hours = UptimeNow
        /\ IsCall("get_user_state") =>
             /\ result'.state \in {"unknown", "error"}
             /\ result'.metrics.stress_level = 0
             /\ result'.metrics.focus_level = 0
             /\ result'.metrics.cognitive_load = 0
             /\ result'.metrics.typing_wpm = 0
             /\ result'.metrics.fatigue_level = UptimeShare(UptimeNow)
        /\ IsCall("check_dangerous_command") =>
             result'.is_blocked = WithZeroMetrics(call').blocked
        /\ (IsCall("safe_execute_command") \/ IsCall("safe_write_file")) =>
             (result'.status = "BLOCKED") = WithZeroMetrics(call').blocked]_vars

\* signals.db cannot be read and the heartbeats show 12 hours: a dangerous
\* command runs at fatigue 60
C14_Witness ==
    /\ database.kind = "unreadable"
    /\ call.tool = "safe_execute_command"
    /\ call.command = CmdDrop
    /\ result.fatigue.level = 60
    /\ result.status = "EXECUTED"

\* activity.json is missing, cannot be read or parsed, or holds no heartbeat
NoHeartbeats ==
    \/ activityFile.kind \in {"absent", "unreadable"}
    \/ activityFile.kind = "ok" /\ Len(activityFile.data) = 0

\* C15: while the heartbeat log is missing, empty or unreadable the fatigue
\* reading of every call is uptime 0, level 0 and category low, whatever the
\* metrics are.
C15_NoHeartbeatsNoFatigue ==
    [][(calls' = calls + 1 /\ NoHeartbeats) =>
        /\ result'.fatigue.uptime_hours = 0
        /\ result'.fatigue.category = "low"
        /\ result'.fatigue.level = 0]_vars

\* ------------------------------------------------------------------------
\* The fatigue formula on its own (calculateFatigue, lines 548-552)
\* ------------------------------------------------------------------------
\* stress in hundredths: the range 0..1 of the metrics, and a value on each
\* side of it
StressLevels == {-10, 0, 1, 2, 25, 50, 63, 75, 99, 100, 120}

\* uptime in minutes, around 4, 8 and 12 hours and beyond
UptimeMinutes == {0, 6, 12, 60, 239, 240, 479, 480, 600, 719, 720, 721, 1440}

CalculateFatigue ==
    \E stressLevel \in StressLevels, uptimeMinutes \in UptimeMinutes :
        /\ call' = [tool |-> "calculateFatigue", stressLevel |-> stressLevel,
                    uptimeMinutes |-> uptimeMinutes]
        /\ result' = [status |-> "returned",
                      level |-> calculateFatigue(stressLevel, uptimeMinutes)]
        /\ UNCHANGED server

SpecFatigue == AtRest /\ [][CalculateFatigue]_vars

\* sixty times clamp(0, 100, min(60, uptime/12h*60) + stress*40)
ClampedSum60(stressLevel, uptimeMinutes) ==
    Min(6000, Max(0, Min(3600, 5 * uptimeMinutes) + 24 * stressLevel))

InUnitRange(c) == c.stressLevel \in 0..100 /\ c.uptimeMinutes >= 0

\* C16 as stated: for a stress in 0..1 and an uptime >= 0 the level is
\* exactly clamp(0, 100, min(60, uptime_hours/12*60) + stress*40).
C16_ExactFormula ==
    [][(call'.tool = "calculateFatigue" /\ InUnitRange(call')) =>
        60 * result'.level = ClampedSum60(call'.stressLevel, call'.uptimeMinutes)]_vars

\* C16, amended: for a stress in 0..1 and an uptime >= 0 the level is the
\* whole number nearest to clamp(0, 100, min(60, uptime_hours/12*60) +
\* stress*40), halves rounded up; fatigue(0, 0) = 0, fatigue(1, 12 hours or
\* more) = 100, and without stress the level is at most 60.
C16_RoundedFormula ==
    [][(call'.tool = "calculateFatigue" /\ InUnitRange(call')) =>
        LET sum60 == ClampedSum60(call'.stressLevel, call'.uptimeMinutes)
        IN  /\ 60 * result'.level - 30 <= sum60
            /\ sum60 < 60 * result'.level + 30
            /\ (call'.stressLevel = 0 /\ call'.uptimeMinutes = 0) => result'.level = 0
            /\ (call'.stressLevel = 100 /\ call'.uptimeMinutes >= 720) =>
                 result'.level = 100
            /\ call'.stressLevel = 0 => result'.level <= 60]_vars

\* stress 0.63 after 10 hours: 50 + 25.2 gives the level 75
C16_Witness ==
    /\ call.tool = "calculateFatigue"
    /\ call.stressLevel = 63
    /\ call.uptimeMinutes = 600
    /\ result.level = 75

\* C17: the level is within 0..100, and it does not decrease when neither
\* the stress nor the uptime decreases.
C17_BoundedAndMonotone ==
    [][call'.tool = "calculateFatigue" =>
        /\ result'.level \in 0..100
        /\ (/\ call.tool = "calculateFatigue"
            /\ call.stressLevel <= call'.stressLevel
            /\ call.uptimeMinutes <= call'.uptimeMinutes)
             => result.level <= result'.level]_vars

\* a stress above 1 after 12 hours: the level stops at 100
C17_Witness ==
    /\ call.tool = "calculateFatigue"
    /\ call.stressLevel = 120
    /\ call.uptimeMinutes = 720
    /\ result.level = 100

\* ------------------------------------------------------------------------
\* The fatigue reading on its own (getCognitiveUptime, lines 500-545, and
\* the reading getCurrentState builds from it)
\* ------------------------------------------------------------------------
\* heartbeat logs, in minutes: a single heartbeat 1 minute before and exactly
\* 4, 8 and 12 hours before the clock reading 720; logs with gaps of 59, 60
\* and more minutes
HeartbeatLogs ==
    {Readable(<<481>>), Readable(<<480>>), Readable(<<241>>), Readable(<<240>>),
     Readable(<<1>>), Readable(<<0>>),
     Readable(<<0, 59>>), Readable(<<0, 60>>), Readable(<<0, 30, 60>>),
     Readable(<<0, 59, 118>>), Readable(<<0, 100, 130>>),
     Readable(<<0, 100, 130, 300>>), Readable(<<0, 61, 121, 150>>)}

ClockReadings == {720, 725, 960}

GetCognitiveUptime ==
    \E activity \in HeartbeatLogs, t \in ClockReadings :
        /\ call' = [tool |-> "getCognitiveUptime", activity |-> activity, t |-> t]
        /\ result' = getCognitiveUptime(activity, t)
        /\ UNCHANGED server

GetCurrentState ==
    \E db \in Databases, activity \in HeartbeatLogs, t \in ClockReadings :
        /\ call' = [tool |-> "getCurrentState", database |-> db,
                    activity |-> activity, t |-> t]
        /\ result' = getCurrentState(db, activity, t).fatigue
        /\ UNCHANGED server

NextReading == GetCognitiveUptime \/ GetCurrentState

SpecReading == AtRest /\ [][NextReading]_vars

\* the heartbeats that follow a gap of 60 minutes or more
BreakEnds(heartbeats) ==
    {i \in 2..Len(heartbeats) : heartbeats[i] - heartbeats[i - 1] >= 60}

\* the start of the current session: the heartbeat after the newest break,
\* the earliest heartbeat when there is no break
SessionStart(heartbeats) ==
    IF BreakEnds(heartbeats) = {} THEN heartbeats[1]
    ELSE heartbeats[CHOOSE i \in BreakEnds(heartbeats) :
                        \A j \in BreakEnds(heartbeats) : j <= i]

\* the uptime of the reading asked for by the call c, in minutes
UptimeOf(c) == c.t - SessionStart(c.activity.data)

\* the band of an uptime in minutes
Band(minutes) ==
    CASE minutes < 240 -> "low"
      [] minutes >= 240 /\ minutes < 480 -> "moderate"
      [] minutes >= 480 /\ minutes < 720 -> "high"
      [] minutes >= 720 -> "critical"

\* C18: the category is the band of the uptime (below 4 hours low, from 4 to
\* below 8 moderate, from 8 to below 12 high, from 12 critical), in
\* getCognitiveUptime and in the reading of getCurrentState; a reading over
\* the same heartbeats at the same time with another stress has another
\* level and the same category.
C18_CategoryFollowsUptime ==
    [][call'.tool \in {"getCognitiveUptime", "getCurrentState"} =>
        /\ result'.category = Band(UptimeOf(call'))
        /\ UptimeOf(call') = 239 => result'.category = "low"
        /\ UptimeOf(call') = 240 => result'.category = "moderate"
        /\ UptimeOf(call') = 479 => result'.category = "moderate"
        /\ UptimeOf(call') = 480 => result'.category = "high"
        /\ UptimeOf(call') = 719 => result'.category = "high"
        /\ UptimeOf(call') = 720 => result'.category = "critical"
        /\ (/\ call.tool = "getCurrentState"
            /\ call'.tool = "getCurrentState"
            /\ call'.activity = call.activity
            /\ call'.t = call.t
            /\ call'.database # call.database) =>
             /\ result'.category = result.category
             /\ result'.level # result.level]_vars

\* eight hours of uptime exactly, read under a stress of 0.5: high
C18_Witness ==
    /\ call.tool = "getCurrentState"
    /\ call.database = Readable(Row(50))
    /\ UptimeOf(call) = 480
    /\ result.category = "high"
    /\ result.level = 60

Line(indent, text, trailing) ==
    [indent |-> indent, text |-> text, trailing |-> trailing]

Spaces(n) == [i \in 1..n |-> SP]

\* the document whose lines are the letters a..b, one per line, unpadded
Plain(a, b) == [i \in 1..(b - a + 1) |-> Line(0, <<a + i - 1>>, 0)]

\* the content of a document: its lines joined by newlines
RECURSIVE RenderRange(_, _, _)
RenderRange(doc, lo, hi) ==
    IF lo > hi THEN <<>>
    ELSE IF lo = hi
    THEN Spaces(doc[lo].indent) \o doc[lo].text \o Spaces(doc[lo].trailing)
    ELSE LET mid == (lo + hi) \div 2
         IN  RenderRange(doc, lo, mid) \o <<NL>> \o RenderRange(doc, mid + 1, hi)

Render(doc) == RenderRange(doc, 1, Len(doc))

\* a file of 100 lines and its rewrite without the first 40 and with 5 new
\* lines; short files that overlap, reordered, padded, with blank lines,
\* with repeated lines, with a space inside a line, ending in a newline,
\* with one line replaced by a new one
Documents ==
    {<<>>,
     Plain(201, 300),
     Plain(241, 305),
     Plain(1, 3),
     Plain(2, 4),
     Plain(1, 8),
     Plain(2, 8),
     <<Line(0, <<3>>, 0), Line(0, <<1>>, 0), Line(0, <<2>>, 0)>>,
     <<Line(2, <<1>>, 1), Line(0, <<1>>, 0), Line(0, <<>>, 0),
       Line(0, <<2>>, 2), Line(3, <<>>, 0), Line(0, <<1, SP, 2>>, 0)>>,
     Plain(1, 3) \o <<Line(0, <<>>, 0)>>,
     <<Line(0, <<1>>, 0), Line(0, <<1>>, 0), Line(0, <<1>>, 0), Line(1, <<2>>, 0)>>,
     <<Line(0, <<>>, 0), Line(1, <<>>, 1)>>,
     <<Line(0, <<1, SP, 2>>, 1), Line(0, <<2>>, 0), Line(0, <<1>>, 0),
       Line(1, <<1>>, 0)>>,
     <<Line(0, <<1>>, 0), Line(0, <<9>>, 0), Line(0, <<3>>, 0)>>,
     <<Line(0, <<1>>, 0), Line(0, <<9>>, 0), Line(0, <<1>>, 0), Line(1, <<2>>, 0)>>,
     <<Line(0, <<1>>, 0), Line(0, <<1>>, 0), Line(0, <<1>>, 0), Line(1, <<9>>, 0)>>}

CalculateDestructiveImpact ==
    \E old \in Documents, new \in Documents :
        /\ call' = [tool |-> "calculateDestructiveImpact", old |-> old, new |-> new]
        /\ result' = calculateDestructiveImpact(Render(old), Render(new))
        /\ UNCHANGED server

SpecImpact == AtRest /\ [][CalculateDestructiveImpact]_vars

\* the texts of the non-blank lines of a document
Texts(doc) == {doc[i].text : i \in 1..Len(doc)} \ {<<>>}

\* p is x / y * 100 rounded to the nearest whole number, halves up
IsRoundedPercent(p, x, y) ==
    /\ 2 * p * y - y <= 200 * x
    /\ 200 * x < 2 * p * y + y

\* C20: lines_removed counts the distinct non-blank trimmed lines of the old
\* content that are not lines of the new content, lines_added those of the
\* new content that are not lines of the old, percentage_removed is
\* lines_removed / total_old_lines * 100 rounded, and 0 for an empty old
\* content; 100 lines rewritten without 40 of them and with 5 new ones give
\* 40, 5 and 40.
C20_ImpactReport ==
    [][call'.tool = "calculateDestructiveImpact" =>
        /\ result'.linesRemoved = Cardinality(Texts(call'.old) \ Texts(call'.new))
        /\ result'.linesAdded = Cardinality(Texts(call'.new) \ Texts(call'.old))
        /\ result'.totalOldLines = Max(1, Len(call'.old))
        /\ IsRoundedPercent(result'.percentageRemoved, result'.linesRemoved,
                            result'.totalOldLines)
        /\ call'.old = <<>> => result'.percentageRemoved = 0
        /\ (call'.old = Plain(201, 300) /\ call'.new = Plain(241, 305)) =>
             /\ result'.linesRemoved = 40
             /\ result'.linesAdded = 5
             /\ result'.percentageRemoved = 40]_vars

\* the file of 100 lines rewritten without 40 of them and with 5 new ones
C20_Witness ==
    /\ call.tool = "calculateDestructiveImpact"
    /\ Len(call.old) = 100
    /\ Cardinality(Texts(call.old) \ Texts(call.new)) = 40
    /\ Cardinality(Texts(call.new) \ Texts(call.old)) = 5
    /\ result.linesRemoved = 40
    /\ result.percentageRemoved = 40

\* how many lines of a document have the text
Count(doc, text) == Cardinality({i \in 1..Len(doc) : doc[i].text = text})

\* the two documents have the same non-blank lines, each as many times: they
\* differ in the order of the lines, in padding and in blank lines only
Rearranged(d, e) ==
    \A text \in Texts(d) \cup Texts(e) : Count(d, text) = Count(e, text)

\* new is old with its line i replaced by a non-blank line that old does not
\* have
ReplacesLine(old, new, i) ==
    /\ Len(new) = Len(old)
    /\ i \in 1..Len(old)
    /\ old[i].text # <<>>
    /\ new[i].text # <<>>
    /\ new[i].text \notin Texts(old)
    /\ \A j \in 1..Len(old) : j # i => new[j] = old[j]

\* the counts of two successive reports over rearranged contents are equal,
\* and the removed of a report are the added of the report the other way
CountsIgnorePosition ==
    (call.tool = "calculateDestructiveImpact" /\
     call'.tool = "calculateDestructiveImpact") =>
        /\ (Rearranged(call.old, call'.old) /\ Rearranged(call.new, call'.new)) =>
             /\ result'.linesRemoved = result.linesRemoved
             /\ result'.linesAdded = result.linesAdded
        /\ Rearranged(call'.old, call'.new) =>
             result'.linesRemoved = 0 /\ result'.linesAdded = 0
        /\ (call'.old = call.new /\ call'.new = call.old) =>
             result'.linesRemoved = result.linesAdded

\* C21 as stated: rearranging the lines, their padding and the blank lines
\* of either content leaves both counts unchanged, a moved line is neither
\* removed nor added, lines_removed(old, new) = lines_added(new, old), and
\* replacing any one old line by a new distinct line gives one removed and
\* one added.
C21_ReplacedLineCountsOnce ==
    [][/\ CountsIgnorePosition
       /\ call'.tool = "calculateDestructiveImpact" =>
            \A i \in 1..Len(call'.old) :
                ReplacesLine(call'.old, call'.new, i) =>
                    result'.linesRemoved = 1 /\ result'.linesAdded = 1]_vars

\* C21: rearranging the lines, their padding and the blank lines of either
\* content leaves both counts unchanged, a moved line is neither removed nor
\* added, lines_removed(old, new) = lines_added(new, old), and replacing one
\* old line whose text no other old line has by a new distinct line gives
\* one removed and one added (one added and none removed when another old
\* line has the same text).
C21_SetComparison ==
    [][/\ CountsIgnorePosition
       /\ call'.tool = "calculateDestructiveImpact" =>
            \A i \in 1..Len(call'.old) :
                ReplacesLine(call'.old, call'.new, i) =>
                    /\ result'.linesAdded = 1
                    /\ result'.linesRemoved =
                           IF Count(call'.old, call'.old[i].text) = 1 THEN 1 ELSE 0]_vars

\* the padded file with blank lines against its three lines in another order
\* after the same comparison the other way round: nothing removed or added
C21_Witness ==
    /\ call.tool = "calculateDestructiveImpact"
    /\ call.old # call.new
    /\ Len(call.old) # Len(call.new)
    /\ \E i \in 1..Len(call.old) : call.old[i].indent > 0
    /\ Rearranged(call.old, call.new)
    /\ Cardinality(Texts(call.old)) = 3
    /\ result.linesRemoved = 0
    /\ result.linesAdded = 0

\* ------------------------------------------------------------------------
\* No state between calls
\* ------------------------------------------------------------------------
\* the last call ran the command, or wrote the file at the path
RanCommand(steps) == \E i \in 1..Len(steps) : steps[i].op = "execSync"
WroteTo(steps, path) ==
    \E i \in 1..Len(steps) : steps[i].op = "writeFileSync" /\ steps[i].path = path

\* this step is a call of the tool of the last call, at the clock reading of
\* the last call
CallsAgain(tool) == IsCall(tool) /\ call.tool = tool /\ call.at = now

OverrideStatuses == {"EXECUTED_OVERRIDE", "SIMULATED_OVERRIDE", "WRITTEN_OVERRIDE"}

\* C22: a call repeated with the same arguments over the same configuration,
\* metrics, heartbeats, clock reading and target content has the same effects
\* and, where no command runs, returns the same outcome, whatever the earlier
\* call has left in the log and the review directory; and the request of an
\* overridden command or write, made again without a reason while the
\* fatigue and the target are as they were, is blocked.
C22_NoStateBetweenCalls ==
    [][/\ CallsAgain("get_user_state") => result' = result
       /\ (CallsAgain("check_dangerous_command") /\ call'.command = call.command) =>
            result' = result
       /\ (CallsAgain("safe_execute_command") /\ call'.command = call.command) =>
            /\ call'.override_reason = call.override_reason =>
                 /\ lastSteps' = lastSteps
                 /\ ~RanCommand(lastSteps) => result' = result
            /\ (/\ HasReason(call.override_reason)
                /\ RanCommand(lastSteps) \/ result.status = "SIMULATED_OVERRIDE"
                /\ Len(lastSteps) > 0 /\ lastSteps[1].op = "console.error"
                /\ NoReason(call'.override_reason)) =>
                 /\ result'.status = "BLOCKED"
                 /\ lastSteps' = <<>>
       /\ (/\ CallsAgain("safe_write_file")
           /\ call'.filepath = call.filepath
           /\ call'.content = call.content
           /\ ~WroteTo(lastSteps, call.filepath)) =>
            /\ call'.override_reason = call.override_reason =>
                 result' = result /\ lastSteps' = lastSteps
            /\ (result.status \in OverrideStatuses /\ NoReason(call'.override_reason)) =>
                 result'.status = "BLOCKED"]_vars

\* a dangerous command was run under an override, and the same command
\* without a reason has been blocked next
C22_Witness ==
    /\ call.tool = "safe_execute_command"
    /\ NoReason(call.override_reason)
    /\ result.status = "BLOCKED"
    /\ calls = 2
    /\ executed = <<call.command>>
    /\ Len(stderrLog) = 1
    /\ stderrLog[1].action = call.command

\* ------------------------------------------------------------------------
\* The audit trail and the review directory
\* ------------------------------------------------------------------------
\* the snapshots: the files of the review directory
Snapshots(fs) == {p \in DOMAIN fs : InReviewDir(p)}

\* the call of this step is on an override or a block path: it returns an
\* override or BLOCKED, or it ran an overridden command that failed
OnOverrideOrBlockPath ==
    \/ /\ call'.tool \in {"safe_execute_command", "safe_write_file"}
       /\ result'.status \in OverrideStatuses \cup {"BLOCKED"}
    \/ /\ call'.tool = "safe_execute_command"
       /\ result'.status = "ERROR"
       /\ HasReason(call'.override_reason)
       /\ isDangerousCommand(call'.command, CurrentConfig)
       /\ Level > Threshold

\* a call off the override and block paths adds no audit entry and no snapshot
SinkOnlyOnOverrideOrBlock ==
    (calls' = calls + 1 /\ ~OnOverrideOrBlockPath) =>
        /\ stderrLog' = stderrLog
        /\ AuditTrail(files') = AuditTrail(files)
        /\ Snapshots(files') = Snapshots(files)

\* the entries and the snapshots there are stay as they are
SinkIsKept ==
    /\ Len(stderrLog') >= Len(stderrLog)
    /\ SubSeq(stderrLog', 1, Len(stderrLog)) = stderrLog
    /\ \A p \in Snapshots(files) : p \in Snapshots(files') /\ files'[p] = files[p]

\* C23: a call whose outcome is neither an override nor a block leaves the
\* audit trail and the review directory unchanged, and no step deletes or
\* rewrites an audit entry or a snapshot that exists.
C23_SinkOnlyGrowsOnOverrideOrBlock ==
    [][SinkOnlyOnOverrideOrBlock /\ SinkIsKept]_vars

\* ------------------------------------------------------------------------
\* Failures of the audit and review sink
\* ------------------------------------------------------------------------
\* the handler run r when the review directory refuses the snapshot: the
\* writeFileSync of line 946 throws, nothing catches it
WithRefusedSnapshot(r) ==
    LET at == {i \in 1..Len(r.steps) :
                  r.steps[i].op = "writeFileSync" /\ InReviewDir(r.steps[i].path)}
    IN  IF at = {} THEN r
        ELSE LET first == CHOOSE i \in at : \A j \in at : i <= j
             IN  [out |-> UncaughtException, steps |-> SubSeq(r.steps, 1, first - 1)]

\* the handler run r when stderr refuses the line: console.error (lines 782
\* and 998) does not throw, the line is lost and the handler goes on
WithLostLogLines(r) ==
    [out |-> r.out, steps |-> SelectSeq(r.steps, LAMBDA st : st.op # "console.error")]

\* lines 1315-1328 when the review directory cannot be written
SafeWriteFileSnapshotRefused ==
    \E filepath \in Paths, content \in Contents, overrideReason \in Reasons :
        Complete([tool |-> "safe_write_file", at |-> now, filepath |-> filepath,
                  content |-> content, override_reason |-> overrideReason],
                 WithRefusedSnapshot(safeWriteFile(OrEmpty(Str(filepath)),
                                                   OrEmpty(Str(content)), overrideReason,
                                                   CurrentConfig, CurrentState, files,
                                                   now)))

\* lines 1301-1313 when stderr cannot be written
SafeExecuteCommandLogRefused ==
    \E command \in Commands, overrideReason \in Reasons, exit \in Exits :
        Complete([tool |-> "safe_execute_command", at |-> now, command |-> command,
                  override_reason |-> overrideReason],
                 WithLostLogLines(safeExecuteCommand(OrEmpty(Str(command)),
                                                     overrideReason, CurrentConfig,
                                                     CurrentState, exit)))

\* lines 1315-1328 when stderr cannot be written
SafeWriteFileLogRefused ==
    \E filepath \in Paths, content \in Contents, overrideReason \in Reasons :
        Complete([tool |-> "safe_write_file", at |-> now, filepath |-> filepath,
                  content |-> content, override_reason |-> overrideReason],
                 WithLostLogLines(safeWriteFile(OrEmpty(Str(filepath)),
                                                OrEmpty(Str(content)), overrideReason,
                                                CurrentConfig, CurrentState, files,
                                                now)))

NextSinkFaults ==
    \/ Next
    \/ SafeWriteFileSnapshotRefused
    \/ SafeExecuteCommandLogRefused
    \/ SafeWriteFileLogRefused

SpecSinkFaults ==
    Start({Readable("execution_mode" :> "live")}, Scenarios) /\ [][NextSinkFaults]_vars

\* an overridden action goes on without its log line
OverrideSurvivesLostLog ==
    /\ (/\ IsCall("safe_execute_command")
        /\ HasReason(call'.override_reason)
        /\ isDangerousCommand(call'.command, CurrentConfig)
        /\ Level > Threshold) =>
         /\ result'.status \in {"EXECUTED_OVERRIDE", "ERROR"}
         /\ executed' = Append(executed, call'.command)
    /\ (/\ IsCall("safe_write_file")
        /\ HasReason(call'.override_reason)
        /\ DecisionOf(call') \in {"block", "hard_block"}) =>
         /\ result'.status = "WRITTEN_OVERRIDE"
         /\ files'[call'.filepath] = call'.content

\* a blocked write returns BLOCKED with or without its snapshot
BlockSurvivesLostSnapshot ==
    (/\ IsCall("safe_write_file")
     /\ NoReason(call'.override_reason)
     /\ DecisionOf(call') \in {"block", "hard_block"}) =>
        /\ result'.status = "BLOCKED"
        /\ TargetUnchanged(call'.filepath)

\* C24: when the snapshot or the log line cannot be written, a blocked write
\* still returns BLOCKED and an overridden command or write still proceeds
\* and returns its override outcome.
C24_SinkFailureKeepsOutcome ==
    [][OverrideSurvivesLostLog /\ BlockSurvivesLostSnapshot]_vars

\* ------------------------------------------------------------------------
\* The write thresholds the wrong way round
\* ------------------------------------------------------------------------
\* a live configuration with write_block_threshold 30 below
\* write_warn_threshold 50: the rewrites of the model remove 35 and 55 lines
InvertedConfigFile ==
    Readable(("execution_mode" :> "live") @@ ("write_warn_threshold" :> <<"5", "0">>)
             @@ ("write_block_threshold" :> <<"3", "0">>))

SpecInverted == Start({InvertedConfigFile}, Scenarios) /\ [][Next]_vars

Inverted == CurrentConfig.write_block_threshold < CurrentConfig.write_warn_threshold

WarnStatuses == {"WRITTEN_WARNING", "SIMULATED_WARNING"}

\* C25 as stated: with write_block_threshold below write_warn_threshold no
\* write returns the warn outcome.
C25_WarnUnreachable ==
    [][(IsCall("safe_write_file") /\ Inverted) =>
          result'.status \notin WarnStatuses]_vars

\* C25: with write_block_threshold below write_warn_threshold the warn
\* outcome is returned exactly at a fatigue level of 51 to 70 for a write
\* that removes more lines than write_warn_threshold; what is out of reach
\* is the soft block above fatigue 80, where every write that removes more
\* than write_block_threshold is hard-blocked unless overridden.
C25_SoftBlockUnreachableAbove80 ==
    [][(IsCall("safe_write_file") /\ Inverted) =>
          /\ result'.status \in WarnStatuses <=>
                 /\ Level > 50
                 /\ Level <= 70
                 /\ LinesRemoved(call') > CurrentConfig.write_warn_threshold
          /\ (Level > 80 /\ NoReason(call'.override_reason)) =>
                 /\ "AI Rewrite Blocked" \notin result'.message
                 /\ LinesRemoved(call') > CurrentConfig.write_block_threshold =>
                        /\ result'.status = "BLOCKED"
                        /\ "High-Risk AI Edit Blocked" \in result'.message]_vars

\* thresholds the wrong way round, fatigue 60, 55 lines removed: the file is
\* written with a warning
C25_Witness ==
    /\ call.tool = "safe_write_file"
    /\ Inverted
    /\ Level = 60
    /\ result.status = "WRITTEN_WARNING"
    /\ result.impact.lines_removed = 55
    /\ files[call.filepath] = call.content

\* ------------------------------------------------------------------------
\* The server step by step: requests arrive, the event loop starts a
\* handler, the handler does its effects one by one and returns
\* ------------------------------------------------------------------------
Requests ==
    {[tool |-> "get_user_state"],
     [tool |-> "check_dangerous_command", command |-> CmdDrop],
     [tool |-> "safe_execute_command", command |-> CmdDrop,
      override_reason |-> Str(<<"P", "0">>)],
     [tool |-> "safe_write_file", filepath |-> ExistingPath, content |-> Keep25,
      override_reason |-> Undefined],
     [tool |-> "safe_write_file", filepath |-> ExistingPath, content |-> Keep5,
      override_reason |-> Str(<<"P", "0">>)]}

\* the handlers that have started and not returned
Running == {i \in 1..Len(inflight) : inflight[i].stage = "running"}

\* lines 1273-1331: the handler of the request over the world as it is
HandlerRun(request, exit) ==
    CASE request.tool = "get_user_state" -> [out |-> CurrentState, steps |-> <<>>]
      [] request.tool = "check_dangerous_command" ->
            [out |-> checkDangerousCommand(request.command, CurrentConfig, CurrentState),
             steps |-> <<>>]
      [] request.tool = "safe_execute_command" ->
            safeExecuteCommand(request.command, request.override_reason,
                               CurrentConfig, CurrentState, exit)
      [] request.tool = "safe_write_file" ->
            safeWriteFile(request.filepath, request.content, request.override_reason,
                          CurrentConfig, CurrentState, files, now)

\* a request arrives on stdin, at any moment
Receive ==
    \E request \in Requests :
        /\ calls + Len(inflight) < MaxCalls
        /\ inflight' = Append(inflight, [request |-> request, stage |-> "received"])
        /\ UNCHANGED <<configFile, database, activityFile, now, ticks, files, dirs,
                       stderrLog, executed, call, result, lastSteps, calls>>

\* the handler of the oldest request starts and reads its inputs
StartHandler(exit) ==
    LET h == inflight[CHOOSE i \in 1..Len(inflight) :
                          /\ inflight[i].stage = "received"
                          /\ \A j \in 1..(i - 1) : inflight[j].stage # "received"]
        r == HandlerRun(h.request, exit)
    IN  [request |-> h.request, stage |-> "running", out |-> r.out,
         remaining |-> r.steps, done |-> <<>>, seen |-> files]

\* the event loop with a handler called while another has not returned, as
\* it would be if the handlers awaited between their reads and their effects
Dispatch_WhileRunning ==
    \E exit \in Exits :
        /\ \E i \in 1..Len(inflight) : inflight[i].stage = "received"
        /\ inflight' = [inflight EXCEPT
               ![CHOOSE i \in 1..Len(inflight) :
                     /\ inflight[i].stage = "received"
                     /\ \A j \in 1..(i - 1) : inflight[j].stage # "received"] =
                   StartHandler(exit)]
        /\ UNCHANGED <<configFile, database, activityFile, now, ticks, files, dirs,
                       stderrLog, executed, call, result, lastSteps, calls>>

\* the event loop calls the handler of the oldest request when no handler is
\* on the stack: the handlers of lines 1273-1331 and all they call are
\* synchronous (readFileSync, execSync, writeFileSync, better-sqlite3), so a
\* handler that has started returns before the loop takes the next request
Dispatch ==
    \E exit \in Exits :
        /\ Running = {}
        /\ \E i \in 1..Len(inflight) : inflight[i].stage = "received"
        /\ inflight' = [inflight EXCEPT
               ![CHOOSE i \in 1..Len(inflight) :
                     /\ inflight[i].stage = "received"
                     /\ \A j \in 1..(i - 1) : inflight[j].stage # "received"] =
                   StartHandler(exit)]
        /\ UNCHANGED <<configFile, database, activityFile, now, ticks, files, dirs,
                       stderrLog, executed, call, result, lastSteps, calls>>

\* a running handler does its next effect
HandlerStep ==
    \E i \in Running :
        /\ Len(inflight[i].remaining) > 0
        /\ LET st == Head(inflight[i].remaining)
               w == ApplyStep([files |-> files, dirs |-> dirs, stderrLog |-> stderrLog,
                               executed |-> executed], st)
           IN  /\ files' = w.files
               /\ dirs' = w.dirs
               /\ stderrLog' = w.stderrLog
               /\ executed' = w.executed
               /\ inflight' = [inflight EXCEPT
                      ![i].remaining = Tail(@), ![i].done = Append(@, st)]
        /\ UNCHANGED <<configFile, database, activityFile, now, ticks, call, result,
                       lastSteps, calls>>

\* a running handler with no effect left returns its outcome
Return ==
    \E i \in Running :
        /\ Len(inflight[i].remaining) = 0
        /\ call' = inflight[i].request
        /\ result' = inflight[i].out
        /\ lastSteps' = inflight[i].done
        /\ calls' = calls + 1
        /\ inflight' = SubSeq(inflight, 1, i - 1) \o
                       SubSeq(inflight, i + 1, Len(inflight))
        /\ UNCHANGED <<configFile, database, activityFile, now, ticks, files, dirs,
                       stderrLog, executed>>

NextSteps == Receive \/ Dispatch \/ HandlerStep \/ Return \/ Tick

SpecSteps ==
    Start({Readable("execution_mode" :> "live")}, Scenarios) /\ [][NextSteps]_vars

\* the world is as the running handler h found it, but for what h has done
AsSeenBy(h) ==
    LET w == ApplySteps([files |-> h.seen, dirs |-> {}, stderrLog |-> <<>>,
                         executed |-> <<>>], h.done)
    IN  files = w.files

\* C26: at most one handler is between its reads and its return, the others
\* wait as received; and from the reads of a handler to its return the files
\* are as it read them but for its own writes, so that no effect of another
\* call comes between.
C26_CallsAreSerialized ==
    /\ Cardinality(Running) <= 1
    /\ \A i \in Running :
          /\ AsSeenBy(inflight[i])
          /\ \A j \in 1..Len(inflight) : j # i => inflight[j].stage = "received"

\* a write has made its directory and not yet written its file while a
\* second write of the same file waits
C26_Witness ==
    /\ Len(inflight) = 2
    /\ inflight[1].stage = "running"
    /\ inflight[1].request.tool = "safe_write_file"
    /\ Len(inflight[1].done) = 1
    /\ Len(inflight[1].remaining) = 1
    /\ inflight[2].stage = "received"
    /\ inflight[2].request.tool = "safe_write_file"
    /\ inflight[2].request.content # inflight[1].request.content

\* ------------------------------------------------------------------------
\* The check and the execution agree
\* ------------------------------------------------------------------------
\* this step calls tool b on the command and at the clock reading of the
\* last call, which was of tool a
Follows(a, b) ==
    /\ IsCall(b)
    /\ call.tool = a
    /\ call'.command = call.command
    /\ call.at = now

\* C27: over the same configuration, metrics and heartbeats the check of a
\* command reports is_blocked exactly when its execution without a reason
\* returns BLOCKED, both with the same fatigue reading, whichever comes
\* first; and is_dangerous is what the classifier says of the command.
C27_CheckPredictsExecution ==
    [][/\ (Follows("check_dangerous_command", "safe_execute_command")
              /\ NoReason(call'.override_reason)) =>
            /\ result.is_blocked <=> result'.status = "BLOCKED"
            /\ result'.fatigue = result.fatigue
       /\ (Follows("safe_execute_command", "check_dangerous_command")
              /\ NoReason(call.override_reason)) =>
            /\ result'.is_blocked <=> result.status = "BLOCKED"
            /\ result'.fatigue = result.fatigue
       /\ IsCall("check_dangerous_command") =>
            /\ result'.is_dangerous <=>
                 \E p \in MergedPatterns(CurrentConfig) : OccursIn(call'.command, p)
            /\ result'.is_blocked => result'.is_dangerous
            /\ result'.fatigue = CurrentState.fatigue]_vars

\* a dangerous command at a fatigue level equal to the threshold: checked as
\* not blocked, then executed
C27_Witness ==
    /\ calls = 2
    /\ call.tool = "safe_execute_command"
    /\ NoReason(call.override_reason)
    /\ call.command = CmdDrop
    /\ Level = Threshold
    /\ result.status = "EXECUTED"
    /\ stderrLog = <<>>
    /\ executed = <<CmdDrop>>

\* ------------------------------------------------------------------------
\* The override reason of an action that is not blocked
\* ------------------------------------------------------------------------
\* the runs of a command without a reason, one per behaviour of the process
CommandRunsWithoutReason(command, config, state) ==
    {safeExecuteCommand(command, Undefined, config, state, exit) : exit \in Exits}

\* the reason cannot matter: the action is not blocked, or the reason is the
\* empty string
ReasonIsIdle(reason, blocked) == ~blocked \/ reason = Str(<<>>)

\* C28: a command that is not to be blocked and a write that is on neither
\* block tier have the outcome and the effects of the same call without a
\* reason, whatever reason is given: no override outcome and no audit line;
\* and on a blocked action the empty reason does what no reason does.
C28_IdleReasonChangesNothing ==
    [][/\ IsCall("safe_execute_command") =>
            LET config == CurrentConfig
                state == CurrentState
                blocked == /\ state.fatigue.level > config.fatigue_threshold
                           /\ isDangerousCommand(call'.command, config)
            IN  ReasonIsIdle(call'.override_reason, blocked) =>
                    /\ \E r \in CommandRunsWithoutReason(call'.command, config, state) :
                           result' = r.out /\ lastSteps' = r.steps
                    /\ result'.status \notin OverrideStatuses
                    /\ stderrLog' = stderrLog
       /\ IsCall("safe_write_file") =>
            LET config == CurrentConfig
                state == CurrentState
                blocked == WriteDecision(state.fatigue.level, LinesRemoved(call'),
                                         config) \in {"block", "hard_block"}
                r == safeWriteFile(call'.filepath, call'.content, Undefined, config,
                                   state, files, now)
            IN  ReasonIsIdle(call'.override_reason, blocked) =>
                    /\ result' = r.out
                    /\ lastSteps' = r.steps
                    /\ result'.status \notin OverrideStatuses
                    /\ stderrLog' = stderrLog]_vars

\* a dangerous command at a fatigue level not above the threshold, run with
\* a reason given: a plain EXECUTED and no audit line
C28_Witness ==
    /\ call.tool = "safe_execute_command"
    /\ HasReason(call.override_reason)
    /\ call.command = CmdDrop
    /\ Level <= Threshold
    /\ result.status = "EXECUTED"
    /\ stderrLog = <<>>
    /\ executed = <<CmdDrop>>

\* ------------------------------------------------------------------------
\* Execution modes other than live
\* ------------------------------------------------------------------------
\* the server over no config.yaml (the default mode) and over a config.yaml
\* with the line "execution_mode: dryrun"
SpecOtherModes ==
    Start({Absent, Readable("execution_mode" :> "dryrun")}, Scenarios)
        /\ [][Next]_vars

\* C29: under every execution_mode other than live no call executes a
\* command and no call changes the target file of a write.
C29_OnlyLiveActs ==
    [][(calls' = calls + 1 /\ CurrentConfig.execution_mode # "live") =>
          /\ executed' = executed
          /\ IsCall("safe_write_file") => TargetUnchanged(call'.filepath)]_vars

\* ------------------------------------------------------------------------
\* The interlock without the metrics source
\* ------------------------------------------------------------------------
\* signals.db is missing or cannot be read
MetricsUnavailable == database.kind # "ok"

\* the thresholds are the defaults: 70 for commands, 30 and 50 lines with
\* the tiers at fatigue 50, 70 and 80 for writes
DefaultThresholds ==
    /\ CurrentConfig.fatigue_threshold = ConfigDefaults.fatigue_threshold
    /\ CurrentConfig.write_warn_threshold = ConfigDefaults.write_warn_threshold
    /\ CurrentConfig.write_block_threshold = ConfigDefaults.write_block_threshold

\* C30: without the metrics source the stress is 0 and the fatigue level is
\* at most 60 at any uptime; under the default thresholds no command and no
\* write is blocked then (so none is overridden either), and a write above
\* fatigue 50 that removes more than the warn threshold gets the warning.
C30_NoBlockWithoutMetrics ==
    [][(calls' = calls + 1 /\ MetricsUnavailable) =>
          /\ Level <= 60
          /\ CurrentState.metrics.stress_level = 0
          /\ DefaultThresholds =>
               /\ IsCall("check_dangerous_command") => ~result'.is_blocked
               /\ (IsCall("safe_execute_command") \/ IsCall("safe_write_file")) =>
                    result'.status \notin OverrideStatuses \cup {"BLOCKED"}
               /\ IsCall("safe_write_file") =>
                    (result'.status \in WarnStatuses <=>
                        /\ Level > 50
                        /\ LinesRemoved(call') > CurrentConfig.write_warn_threshold)]_vars

\* signals.db unreadable after more than 12 hours of uptime: fatigue 60, and
\* a rewrite that drops 55 lines is written with a warning
C30_Witness ==
    /\ call.tool = "safe_write_file"
    /\ MetricsUnavailable
    /\ DefaultThresholds
    /\ ticks > 0
    /\ Level = 60
    /\ result.status = "WRITTEN_WARNING"
    /\ result.impact.lines_removed = 55

====
